---------------------------- MODULE Spec2Model ----------------------------
(***************************************************************************)
(* Model of the WAA agent orchestration loop (src/waa/agent.py): its      *)
(* initialization, the turn loop, the response parser and tool dispatch.  *)
(* The language model and the tools are ports: a generate call returns    *)
(* one of a set of responses or raises, an execute call returns a result  *)
(* of either shape or raises.                                              *)
(*                                                                         *)
(* Model responses are strings; TLC treats a string as a sequence of its  *)
(* characters (Len, SubSeq, \o), so the delimiter protocol is modelled    *)
(* character by character.                                                 *)
(***************************************************************************)
EXTENDS Integers, Sequences, FiniteSets, TLC

(***************************************************************************)
(* Python string primitives used by the agent.                            *)
(***************************************************************************)
Min(a, b) == IF a < b THEN a ELSE b

\* s[i] (1-based); the empty string when i is out of range
Ch(s, i) == IF 1 <= i /\ i <= Len(s) THEN SubSeq(s, i, i) ELSE ""

\* s[a-1:b] of Python for 1-based inclusive a..b, clamped like a Python slice
Slice(s, a, b) == IF a > Min(b, Len(s)) THEN "" ELSE SubSeq(s, a, Min(b, Len(s)))

\* str.startswith
startswith(s, p) == Len(s) >= Len(p) /\ SubSeq(s, 1, Len(p)) = p

\* str.endswith
endswith(s, p) == Len(s) >= Len(p) /\ SubSeq(s, Len(s) - Len(p) + 1, Len(s)) = p

\* `p in s`
contains(s, p) == \E i \in 1..(Len(s) - Len(p) + 1) : SubSeq(s, i, i + Len(p) - 1) = p

\* str.replace(old, new): left to right, non-overlapping, a single pass
RECURSIVE replace(_, _, _)
replace(s, old, new) ==
    IF Len(s) < Len(old) THEN s
    ELSE IF startswith(s, old)
         THEN new \o replace(SubSeq(s, Len(old) + 1, Len(s)), old, new)
         ELSE Ch(s, 1) \o replace(SubSeq(s, 2, Len(s)), old, new)

\* the whitespace str.strip() removes (the characters of it the model uses)
Whitespace == {" ", "\t", "\n", "\r"}

RECURSIVE lstrip(_)
lstrip(s) == IF Len(s) > 0 /\ Ch(s, 1) \in Whitespace THEN lstrip(SubSeq(s, 2, Len(s))) ELSE s

RECURSIVE rstrip(_)
rstrip(s) == IF Len(s) > 0 /\ Ch(s, Len(s)) \in Whitespace THEN rstrip(SubSeq(s, 1, Len(s) - 1)) ELSE s

\* str.strip()
strip(s) == rstrip(lstrip(s))

(***************************************************************************)
(* Python values produced by json.loads.  Every value is a record of the  *)
(* same shape; k names the Python type.  A dict keeps its keys in         *)
(* insertion order in `keys`, with the values at the same positions of    *)
(* `items`.                                                                *)
(***************************************************************************)
PyVal(k, b, n, s, items, keys) ==
    [k |-> k, b |-> b, n |-> n, s |-> s, items |-> items, keys |-> keys]

PyNone == PyVal("None", FALSE, 0, "", <<>>, <<>>)
PyBool(b) == PyVal("bool", b, 0, "", <<>>, <<>>)
PyInt(n) == PyVal("int", FALSE, n, "", <<>>, <<>>)
PyStr(s) == PyVal("str", FALSE, 0, s, <<>>, <<>>)
PyList(items) == PyVal("list", FALSE, 0, "", items, <<>>)
PyDict(keys, items) == PyVal("dict", FALSE, 0, "", items, keys)

\* bool(v): the truth value Python gives v
truthy(v) ==
    CASE v.k = "None" -> FALSE
      [] v.k = "bool" -> v.b
      [] v.k = "int"  -> v.n # 0
      [] v.k = "str"  -> Len(v.s) > 0
      [] v.k = "list" -> Len(v.items) > 0
      [] v.k = "dict" -> Len(v.keys) > 0

\* d[key] = value on a dict under construction: a repeated key keeps its
\* position and takes the later value
dict_put(keys, items, key, value) ==
    IF \E i \in 1..Len(keys) : keys[i] = key
    THEN [keys |-> keys,
          items |-> [i \in 1..Len(items) |-> IF keys[i] = key THEN value ELSE items[i]]]
    ELSE [keys |-> Append(keys, key), items |-> Append(items, value)]

\* dict.get(key, default)
dict_get(d, key, default) ==
    IF \E i \in 1..Len(d.keys) : d.keys[i] = key
    THEN d.items[CHOOSE i \in 1..Len(d.keys) : d.keys[i] = key]
    ELSE default

(***************************************************************************)
(* json.loads, over the JSON the model's responses use: objects, arrays,  *)
(* strings with the escapes \" \\ \/ \n \t \r, integers and the literals  *)
(* true, false, null.  A result is [ok, val, pos]: ok = FALSE is          *)
(* json.JSONDecodeError, pos the index after the value.                   *)
(***************************************************************************)
JsonWhitespace == {" ", "\t", "\n", "\r"}
ControlChars == {"\t", "\n", "\r"}
Digits == {"0", "1", "2", "3", "4", "5", "6", "7", "8", "9"}

DigitValue(c) ==
    CASE c = "0" -> 0 [] c = "1" -> 1 [] c = "2" -> 2 [] c = "3" -> 3 [] c = "4" -> 4
      [] c = "5" -> 5 [] c = "6" -> 6 [] c = "7" -> 7 [] c = "8" -> 8 [] c = "9" -> 9

DecodeError == [ok |-> FALSE, val |-> PyNone, pos |-> 0]
Decoded(v, p) == [ok |-> TRUE, val |-> v, pos |-> p]

RECURSIVE skip_ws(_, _)
skip_ws(s, i) == IF i <= Len(s) /\ Ch(s, i) \in JsonWhitespace THEN skip_ws(s, i + 1) ELSE i

\* the character an escape \c stands for; "" when \c is no escape
Unescape(c) ==
    CASE c = "\"" -> "\"" [] c = "\\" -> "\\" [] c = "/" -> "/"
      [] c = "n" -> "\n" [] c = "t" -> "\t" [] c = "r" -> "\r"
      [] OTHER -> ""

\* a string's characters from i (after the opening quote) to the closing quote
RECURSIVE scan_string(_, _, _)
scan_string(s, i, acc) ==
    IF i > Len(s) THEN DecodeError
    ELSE IF Ch(s, i) = "\"" THEN Decoded(PyStr(acc), i + 1)
    ELSE IF Ch(s, i) = "\\"
         THEN IF Unescape(Ch(s, i + 1)) = "" THEN DecodeError
              ELSE scan_string(s, i + 2, acc \o Unescape(Ch(s, i + 1)))
    ELSE IF Ch(s, i) \in ControlChars THEN DecodeError
    ELSE scan_string(s, i + 1, acc \o Ch(s, i))

RECURSIVE scan_digits(_, _, _)
scan_digits(s, i, acc) ==
    IF Ch(s, i) \in Digits THEN scan_digits(s, i + 1, 10 * acc + DigitValue(Ch(s, i)))
    ELSE [n |-> acc, pos |-> i]

\* -?(0|[1-9][0-9]*)
scan_number(s, i) ==
    LET neg == Ch(s, i) = "-"
        j == IF neg THEN i + 1 ELSE i
    IN  IF Ch(s, j) \notin Digits THEN DecodeError
        ELSE IF Ch(s, j) = "0" THEN Decoded(PyInt(0), j + 1)
        ELSE LET d == scan_digits(s, j, 0)
             IN  Decoded(PyInt(IF neg THEN 0 - d.n ELSE d.n), d.pos)

RECURSIVE scan_once(_, _)
RECURSIVE scan_members(_, _, _, _)
RECURSIVE scan_elements(_, _, _)

\* the members of an object from i, the index after a key's opening quote
scan_members(s, i, keys, items) ==
    LET key == scan_string(s, i, "")
        colon == skip_ws(s, key.pos)
        value == scan_once(s, skip_ws(s, colon + 1))
        sep == skip_ws(s, value.pos)
        d == dict_put(keys, items, key.val.s, value.val)
        quote == skip_ws(s, sep + 1)
    IN  IF ~key.ok THEN DecodeError
        ELSE IF Ch(s, colon) # ":" THEN DecodeError
        ELSE IF ~value.ok THEN DecodeError
        ELSE IF Ch(s, sep) = "}" THEN Decoded(PyDict(d.keys, d.items), sep + 1)
        ELSE IF Ch(s, sep) # "," THEN DecodeError
        ELSE IF Ch(s, quote) # "\"" THEN DecodeError
        ELSE scan_members(s, quote + 1, d.keys, d.items)

\* the elements of an array from i, the index of an element's first character
scan_elements(s, i, items) ==
    LET value == scan_once(s, i)
        sep == skip_ws(s, value.pos)
    IN  IF ~value.ok THEN DecodeError
        ELSE IF Ch(s, sep) = "]" THEN Decoded(PyList(Append(items, value.val)), sep + 1)
        ELSE IF Ch(s, sep) # "," THEN DecodeError
        ELSE scan_elements(s, skip_ws(s, sep + 1), Append(items, value.val))

\* one JSON value starting at index i
scan_once(s, i) ==
    LET c == Ch(s, i)
    IN  IF c = "" THEN DecodeError
        ELSE IF c = "\"" THEN scan_string(s, i + 1, "")
        ELSE IF c = "{"
             THEN LET j == skip_ws(s, i + 1)
                  IN  IF Ch(s, j) = "}" THEN Decoded(PyDict(<<>>, <<>>), j + 1)
                      ELSE IF Ch(s, j) # "\"" THEN DecodeError
                      ELSE scan_members(s, j + 1, <<>>, <<>>)
        ELSE IF c = "["
             THEN LET j == skip_ws(s, i + 1)
                  IN  IF Ch(s, j) = "]" THEN Decoded(PyList(<<>>), j + 1)
                      ELSE scan_elements(s, j, <<>>)
        ELSE IF c = "n" /\ Slice(s, i, i + 3) = "null" THEN Decoded(PyNone, i + 4)
        ELSE IF c = "t" /\ Slice(s, i, i + 3) = "true" THEN Decoded(PyBool(TRUE), i + 4)
        ELSE IF c = "f" /\ Slice(s, i, i + 4) = "false" THEN Decoded(PyBool(FALSE), i + 5)
        ELSE scan_number(s, i)

\* json.loads(s): one value, whitespace around it, nothing else
json_loads(s) ==
    LET r == scan_once(s, skip_ws(s, 1))
    IN  IF ~r.ok THEN DecodeError
        ELSE IF skip_ws(s, r.pos) # Len(s) + 1 THEN DecodeError
        ELSE r

(***************************************************************************)
(* The wire protocol and the model responses the backend may return.      *)
(***************************************************************************)
TOOL_CALL_OPEN == "<tool_call>"
TOOL_CALL_CLOSE == "</tool_call>"
TERMINATE == "<terminate>"

CALL_READ == "{\"tool\": \"fs.read\", \"arguments\": {\"path\": \"a\"}}"
CALL_WRITE == "{\"tool\": \"fs.write\", \"arguments\": {\"path\": \"b\", \"content\": \"c\"}}"

Wrapped(interior) == TOOL_CALL_OPEN \o interior \o TOOL_CALL_CLOSE

\* plain reasoning text, the empty response included
PlainResponses == {"Let me check.", ""}

\* responses that carry the termination marker
TerminateResponses ==
    { "<terminate>Done.",
      "<terminate>",
      "<terminate> Done. \n",
      "I am done.<terminate>Bye.</terminate>",
      "<terminate>a<terminate>b",
      "<terminate><termi<terminate>nate>x",
      Wrapped("{\"tool\": \"fs.read\", \"arguments\": {\"path\": \"<terminate>\"}}"),
      Wrapped(CALL_READ) \o "<terminate>",
      Wrapped("<terminate>") }

\* wrapped, well-formed JSON objects
ToolCallResponses ==
    { Wrapped(CALL_READ),
      Wrapped(CALL_WRITE),
      Wrapped("{\"tool\": \"nope\", \"arguments\": {}}"),
      Wrapped("{\"tool\": \"fs.read\", \"arguments\": {}}"),
      Wrapped("{\"tool\": \"todo.complete\", \"arguments\": {\"id\": \"1\"}}"),
      Wrapped("{\"arguments\": {\"path\": \"a\"}}"),
      Wrapped("{\"tool\": \"\"}"),
      Wrapped("{}") }

\* two wrapped blocks one after the other, and a wrapped block in whitespace
TwoBlockResponses ==
    { Wrapped(CALL_READ) \o Wrapped(CALL_WRITE),
      Wrapped(CALL_READ) \o "\n" \o Wrapped(CALL_WRITE) }

PaddedResponses == { Wrapped(CALL_READ) \o "\n", " " \o Wrapped(CALL_READ) }

\* wrapped text that is no JSON
MalformedResponses ==
    { Wrapped("{\"tool\": "),
      Wrapped(""),
      Wrapped("{tool: fs.read}"),
      Wrapped("fs.read") }

\* wrapped, well-formed JSON that is no object
NonObjectResponses ==
    { Wrapped("[1]"), Wrapped("\"fs.read\""), Wrapped("7"), Wrapped("true"),
      Wrapped("[]"), Wrapped("\"\""), Wrapped("0"), Wrapped("null"), Wrapped("false") }

Responses ==
    PlainResponses \cup TerminateResponses \cup ToolCallResponses \cup TwoBlockResponses
    \cup PaddedResponses \cup MalformedResponses \cup NonObjectResponses

\* what one llm.generate call does: raise, or return one of the responses
GenerateOutcomes ==
    {[failed |-> TRUE, text |-> ""]} \cup {[failed |-> FALSE, text |-> r] : r \in Responses}

(***************************************************************************)
(* Bounds.                                                                 *)
(***************************************************************************)
MaxTurns == 2

(***************************************************************************)
(* Tools: the standard tools this repository defines (tools/fs.py and     *)
(* tools/todo.py), in the order initialize_tool_registry collects them,   *)
(* and their argument schemas [name, required, type].                     *)
(***************************************************************************)
standard_fs_tools ==
    <<"fs.write", "fs.delete", "fs.read", "fs.edit", "fs.mkdir", "fs.rmdir", "fs.ls", "fs.tree">>

standard_todo_tools == <<"todo.add", "todo.list", "todo.complete", "todo.remove">>

all_tools == standard_fs_tools \o standard_todo_tools

ToolNames == {all_tools[i] : i \in 1..Len(all_tools)}

Arg(name, required, type) == [name |-> name, required |-> required, type |-> type]

schema(tool) ==
    CASE tool = "fs.write"  -> <<Arg("path", TRUE, "str"), Arg("content", TRUE, "str")>>
      [] tool = "fs.delete" -> <<Arg("path", TRUE, "str")>>
      [] tool = "fs.read"   -> <<Arg("path", TRUE, "str")>>
      [] tool = "fs.edit"   -> <<Arg("path", TRUE, "str"), Arg("old_text", TRUE, "str"),
                                 Arg("new_text", TRUE, "str")>>
      [] tool = "fs.mkdir"  -> <<Arg("path", TRUE, "str")>>
      [] tool = "fs.rmdir"  -> <<Arg("path", TRUE, "str"), Arg("recursive", FALSE, "bool")>>
      [] tool = "fs.ls"     -> <<Arg("path", TRUE, "str")>>
      [] tool = "fs.tree"   -> <<Arg("path", FALSE, "str")>>
      [] tool = "todo.add"  -> <<Arg("description", TRUE, "str")>>
      [] tool = "todo.list" -> <<Arg("status", FALSE, "str")>>
      [] tool = "todo.complete" -> <<Arg("id", TRUE, "int")>>
      [] tool = "todo.remove"   -> <<Arg("id", TRUE, "int")>>

\* ToolRegistry.get_tool: the name is found iff a tool was registered under it
get_tool_found(registry, tool_name) ==
    /\ tool_name.k = "str"
    /\ \E i \in 1..Len(registry) : registry[i] = tool_name.s

\* ToolSchema.validate: every required argument is present and every present
\* argument of the schema has the expected type
validate_ok(sch, tool_args) ==
    /\ tool_args.k = "dict"
    /\ \A i \in 1..Len(sch) :
          LET present == \E j \in 1..Len(tool_args.keys) : tool_args.keys[j] = sch[i].name
          IN  /\ sch[i].required => present
              /\ present => dict_get(tool_args, sch[i].name, PyNone).k = sch[i].type

(***************************************************************************)
(* Tool results: the dict a tool returns, or None.                        *)
(***************************************************************************)
Result(k, ok, data, error) == [k |-> k, ok |-> ok, data |-> data, error |-> error]
ResultNone == Result("None", FALSE, "", "")
ResultOk(data) == Result("dict", TRUE, data, "")
ResultError(error) == Result("dict", FALSE, "", error)

\* what one tool.execute call does: return a result of either shape, or raise
ExecuteOutcomes ==
    { [raised |-> FALSE, result |-> ResultOk("data")],
      [raised |-> FALSE, result |-> ResultError("tool failed")],
      [raised |-> TRUE, result |-> ResultNone] }

(***************************************************************************)
(* History entries, all of one record shape.                              *)
(***************************************************************************)
Entry(type, content, tool_name, tool_args, result) ==
    [type |-> type, content |-> content, tool_name |-> tool_name,
     tool_args |-> tool_args, result |-> result]

SystemPrompt(content) == Entry("SystemPrompt", content, PyNone, PyNone, ResultNone)
UserInstruction(content) == Entry("UserInstruction", content, PyNone, PyNone, ResultNone)
LLMResponse(content) == Entry("LLMResponse", content, PyNone, PyNone, ResultNone)
ToolCallResult(tool_name, tool_args, result) ==
    Entry("ToolCallResult", "", tool_name, tool_args, result)

(***************************************************************************)
(* The files under .waa at startup and the configuration they hold.       *)
(***************************************************************************)
AllowedToolsChoices ==
    { [absent |-> TRUE, names |-> {}],
      [absent |-> FALSE, names |-> {"fs.read"}],
      [absent |-> FALSE, names |-> {"todo.complete", "fs.read", "ghost.tool"}] }

Disks ==
    [config_exists : BOOLEAN, log_exists : BOOLEAN, instruction_exists : BOOLEAN,
     max_turns : (-1)..MaxTurns, allowed_tools : AllowedToolsChoices]

VARIABLES
    disk,           \* the files under .waa when the run starts
    pc,             \* the position of Agent.run
    max_turns,      \* Agent.max_turns
    tool_registry,  \* the names registered, in registration order
    initialized,    \* per tool, the number of initialize(env) calls
    history,        \* Agent.history
    turn,           \* the index of the loop iteration about to run
    call_count,     \* the number of llm.generate calls made
    executed,       \* the tool.execute calls made: [turn, tool, args, outcome]
    log,            \* the lines written to the log sink
    final_answer,   \* the final answer extracted on termination
    files,          \* the regular files of the filesystem: resolved path -> content
    dirs,           \* the directories of the filesystem, as resolved paths
    fs_last,        \* the last fs tool call made and the result it returned
    fs_calls,       \* the number of fs tool calls made
    llm_script,     \* the responses argument MockLanguageModel was constructed with
    llm_responses,  \* MockLanguageModel.responses
    llm_call_count, \* MockLanguageModel.call_count
    llm_made,       \* the generate calls made since construction or the last reset
    llm_returned,   \* what the last generate call did: the text returned, or raised
    todo_file,      \* .waa/todo.json: whether it exists and the list it holds
    todo_last,      \* the last todo tool call made and the result it returned
    todo_issued,    \* the ids todo.add assigned, in the order of the calls
    todo_calls      \* the number of todo tool calls made

agent_vars == <<disk, pc, max_turns, tool_registry, initialized, history, turn, call_count,
                executed, log, final_answer>>
fs_vars == <<files, dirs, fs_last, fs_calls>>
llm_vars == <<llm_script, llm_responses, llm_call_count, llm_made, llm_returned>>
todo_vars == <<todo_file, todo_last, todo_issued, todo_calls>>
\* what the agent loop of this model leaves alone: the filesystem behind the
\* fs tools, the scripted language model and the todo file
tool_vars == <<fs_vars, llm_vars, todo_vars>>
vars == <<agent_vars, tool_vars>>

(***************************************************************************)
(* The filesystem the fs tools work on: the working directory /w with a   *)
(* protected file, a subdirectory and a sibling directory /w2.  There are *)
(* no symbolic links.  protected_files lists p.txt, which exists, and     *)
(* n/r.txt, which does not (nor does its parent directory).               *)
(***************************************************************************)
WORKING_DIR == "/w"
PROTECTED_FILES == <<"p.txt", "n/r.txt">>

NoCall ==
    [tool |-> "", path |-> "", content |-> "", old_text |-> "", new_text |-> "",
     recursive |-> FALSE, result |-> ResultNone, read |-> {}]

FsStart ==
    /\ files = [f \in {"/w/p.txt", "/w/d/a.txt"} |-> IF f = "/w/p.txt" THEN "secret" ELSE "xx"]
    /\ dirs = {"/", "/w", "/w/d", "/w2"}
    /\ fs_last = NoCall
    /\ fs_calls = 0

(***************************************************************************)
(* The todo list (src/waa/tools/todo.py): .waa/todo.json does not exist   *)
(* until a todo tool writes it, and no todo tool has been called.         *)
(***************************************************************************)
\* Python's None in the place of a timestamp
None == [none |-> TRUE, at |-> 0]

NoTodoFile == [exists |-> FALSE, todos |-> <<>>]

NoTodoCall ==
    [tool |-> "", description |-> "", id |-> 0, status |-> [absent |-> TRUE, value |-> ""],
     result |-> [ok |-> FALSE, message |-> "", error |-> "", todos |-> <<>>, count |-> 0]]

TodoStart ==
    /\ todo_file = NoTodoFile
    /\ todo_last = NoTodoCall
    /\ todo_issued = <<>>
    /\ todo_calls = 0

\* the part of the state a turn's helpers read and write
State == [history |-> history, call_count |-> call_count, executed |-> executed, log |-> log]

Logged(st, line) == [st EXCEPT !.log = Append(@, line)]

(***************************************************************************)
(* MockLanguageModel (src/waa/llm.py): a scripted list of responses and   *)
(* the number of generate calls made.                                      *)
(***************************************************************************)
DEFAULT_RESPONSES ==
    << "<tool_call>{\"tool\": \"fs.read\", \"arguments\": {\"path\": \"package.json\"}}</tool_call>",
       "Let me check the project structure.",
       "<tool_call>{\"tool\": \"tests.run\", \"arguments\": {\"type\": \"all\"}}</tool_call>",
       "<terminate>" >>

\* the responses argument of the constructor: None, or a list
NoScript == [absent |-> TRUE, list |-> <<>>]
Script(list) == [absent |-> FALSE, list |-> list]

\* MockLanguageModel.__init__: `responses or [...]`, call_count = 0
MockLanguageModel_init(script) ==
    [responses |-> IF script.absent \/ script.list = <<>> THEN DEFAULT_RESPONSES
                   ELSE script.list,
     call_count |-> 0]

NotCalled == [called |-> FALSE, raised |-> FALSE, text |-> ""]

\* the model as the constructor leaves it
MockConstructed(script) ==
    /\ llm_script = script
    /\ llm_responses = MockLanguageModel_init(script).responses
    /\ llm_call_count = MockLanguageModel_init(script).call_count
    /\ llm_made = 0
    /\ llm_returned = NotCalled

\* Agent.__init__
AgentInit ==
    /\ disk \in Disks
    /\ pc = "initialize_environment"
    /\ max_turns = 0
    /\ tool_registry = <<>>
    /\ initialized = [t \in ToolNames |-> 0]
    /\ history = <<>>
    /\ turn = 0
    /\ call_count = 0
    /\ executed = <<>>
    /\ log = <<>>
    /\ final_answer = [set |-> FALSE, text |-> ""]

Init ==
    /\ AgentInit
    /\ FsStart
    /\ MockConstructed(NoScript)
    /\ TodoStart

(***************************************************************************)
(* Initialization: Agent.initialize, one step per call, in its order.     *)
(* An exception raised here leaves run before its try block.              *)
(***************************************************************************)
InitializeEnvironment ==
    /\ pc = "initialize_environment"
    /\ IF ~disk.config_exists
       THEN /\ pc' = "aborted"
            /\ UNCHANGED max_turns
       ELSE /\ pc' = "initialize_llm"
            /\ max_turns' = disk.max_turns
    /\ UNCHANGED <<tool_vars, disk, tool_registry, initialized, history, turn, call_count, executed,
                   log, final_answer>>

InitializeLLM ==
    /\ pc = "initialize_llm"
    /\ pc' = "initialize_logger"
    /\ call_count' = 0
    /\ UNCHANGED <<tool_vars, disk, max_turns, tool_registry, initialized, history, turn, executed,
                   log, final_answer>>

\* initialize_logger opening an existing log again instead of refusing it
InitializeLogger_reopens ==
    /\ pc = "initialize_logger"
    /\ pc' = "initialize_tool_registry"
    /\ log' = log \o <<"Agent initialization started", "Working directory",
                       "Debug mode", "Max turns">>
    /\ UNCHANGED <<tool_vars, disk, max_turns, tool_registry, initialized, history, turn, call_count,
                   executed, final_answer>>

InitializeLogger ==
    /\ pc = "initialize_logger"
    /\ IF disk.log_exists
       THEN /\ pc' = "aborted"
            /\ UNCHANGED log
       ELSE /\ pc' = "initialize_tool_registry"
            /\ log' = log \o <<"Agent initialization started", "Working directory",
                               "Debug mode", "Max turns">>
    /\ UNCHANGED <<tool_vars, disk, max_turns, tool_registry, initialized, history, turn, call_count,
                   executed, final_answer>>

\* the registration loop without the allow-list filter
is_allowed_unfiltered(allowed_tools, name) == TRUE

\* allowed_tools is None or tool.name in allowed_tools
is_allowed(allowed_tools, name) == allowed_tools.absent \/ name \in allowed_tools.names

\* ToolRegistry.register_tool: the tool is added under its name, after the
\* tools registered before it
register_tool(registry, name) == Append(registry, name)

\* the registration loop over the tools still to visit
RECURSIVE register_allowed(_, _, _)
register_allowed(tools, allowed_tools, registry) ==
    IF tools = <<>> THEN registry
    ELSE register_allowed(Tail(tools), allowed_tools,
                          IF is_allowed(allowed_tools, Head(tools))
                          THEN register_tool(registry, Head(tools))
                          ELSE registry)

\* initialize_tool_registry registering the allowed tools without initializing them
InitializeToolRegistry_uninitialized ==
    /\ pc = "initialize_tool_registry"
    /\ pc' = "load_system_prompt"
    /\ LET registered == register_allowed(all_tools, disk.allowed_tools, <<>>)
       IN  /\ tool_registry' = registered
           /\ log' = log \o [i \in 1..Len(registered) |-> "Tool registered: " \o registered[i]]
    /\ UNCHANGED <<tool_vars, disk, max_turns, initialized, history, turn, call_count, executed,
                   final_answer>>

InitializeToolRegistry ==
    /\ pc = "initialize_tool_registry"
    /\ pc' = "load_system_prompt"
    /\ LET registered == register_allowed(all_tools, disk.allowed_tools, <<>>)
       IN  /\ tool_registry' = registered
           /\ initialized' = [t \in ToolNames |->
                                 IF \E i \in 1..Len(registered) : registered[i] = t
                                 THEN initialized[t] + 1 ELSE initialized[t]]
           /\ log' = log \o [i \in 1..Len(registered) |-> "Tool registered: " \o registered[i]]
    /\ UNCHANGED <<tool_vars, disk, max_turns, history, turn, call_count, executed, final_answer>>

RECURSIVE tool_catalog(_)
tool_catalog(registry) ==
    IF registry = <<>> THEN ""
    ELSE "\n- " \o Head(registry) \o tool_catalog(Tail(registry))

\* the protocol preamble and one catalog entry per registered tool
system_prompt_text(registry) ==
    "You are WAA." \o
    (IF registry = <<>> THEN "\nNo tools are available." ELSE tool_catalog(registry))

LoadSystemPrompt ==
    /\ pc = "load_system_prompt"
    /\ pc' = "load_instruction"
    /\ history' = Append(history, SystemPrompt(system_prompt_text(tool_registry)))
    /\ log' = Append(log, "System prompt")
    /\ UNCHANGED <<tool_vars, disk, max_turns, tool_registry, initialized, turn, call_count, executed,
                   final_answer>>

INSTRUCTION == "Build the app."

LoadInstruction ==
    /\ pc = "load_instruction"
    /\ IF ~disk.instruction_exists
       THEN /\ pc' = "aborted"
            /\ UNCHANGED <<history, log>>
       ELSE /\ pc' = "loop"
            /\ history' = Append(history, UserInstruction(INSTRUCTION))
            /\ log' = log \o <<"User instruction", "Agent initialization complete">>
    /\ UNCHANGED <<tool_vars, disk, max_turns, tool_registry, initialized, turn, call_count, executed,
                   final_answer>>

(***************************************************************************)
(* The helpers of a turn.                                                  *)
(***************************************************************************)
\* query_llm without the history.append of the response
query_llm_unrecorded(st, g) ==
    LET asked == [Logged(st, "Querying LLM...") EXCEPT !.call_count = @ + 1]
    IN  IF g.failed
        THEN [st |-> Logged(asked, "LLM query failed"), none |-> TRUE, text |-> ""]
        ELSE [st |-> Logged(asked, "LLM response: " \o g.text), none |-> FALSE, text |-> g.text]

\* query_llm recording an empty LLMResponse when generate raises
query_llm_records_failure(st, g) ==
    LET asked == [Logged(st, "Querying LLM...") EXCEPT !.call_count = @ + 1]
    IN  IF g.failed
        THEN [st |-> [Logged(asked, "LLM query failed")
                         EXCEPT !.history = Append(@, LLMResponse(""))],
              none |-> TRUE, text |-> ""]
        ELSE [st |-> [Logged(asked, "LLM response: " \o g.text)
                         EXCEPT !.history = Append(@, LLMResponse(g.text))],
              none |-> FALSE, text |-> g.text]

\* Agent.query_llm with the outcome g of llm.generate: the new state, and the
\* value returned (none = TRUE is None)
query_llm(st, g) ==
    LET asked == [Logged(st, "Querying LLM...") EXCEPT !.call_count = @ + 1]
    IN  IF g.failed
        THEN [st |-> Logged(asked, "LLM query failed"), none |-> TRUE, text |-> ""]
        ELSE [st |-> [Logged(asked, "LLM response: " \o g.text)
                         EXCEPT !.history = Append(@, LLMResponse(g.text))],
              none |-> FALSE, text |-> g.text]

\* the index of the first occurrence of p in s, 0 when there is none (str.find + 1)
index_of(s, p) ==
    IF contains(s, p)
    THEN CHOOSE i \in 1..(Len(s) - Len(p) + 1) :
            /\ SubSeq(s, i, i + Len(p) - 1) = p
            /\ \A j \in 1..(i - 1) : SubSeq(s, j, j + Len(p) - 1) # p
    ELSE 0

\* _parse_tool_call decoding up to the first closing delimiter
_parse_tool_call_first_block(response) ==
    IF startswith(response, TOOL_CALL_OPEN) /\ contains(response, TOOL_CALL_CLOSE)
    THEN LET json_str == Slice(response, Len(TOOL_CALL_OPEN) + 1,
                               index_of(response, TOOL_CALL_CLOSE) - 1)
             decoded == json_loads(json_str)
         IN  IF decoded.ok THEN [raised |-> FALSE, val |-> decoded.val]
             ELSE [raised |-> FALSE, val |-> PyNone]
    ELSE [raised |-> FALSE, val |-> PyNone]

\* _parse_tool_call without the except clause
_parse_tool_call_uncaught(response) ==
    IF startswith(response, TOOL_CALL_OPEN) /\ endswith(response, TOOL_CALL_CLOSE)
    THEN LET json_str == Slice(response, Len(TOOL_CALL_OPEN) + 1,
                               Len(response) - Len(TOOL_CALL_CLOSE))
             decoded == json_loads(json_str)
         IN  IF decoded.ok THEN [raised |-> FALSE, val |-> decoded.val]
             ELSE [raised |-> TRUE, val |-> PyNone]
    ELSE [raised |-> FALSE, val |-> PyNone]

\* Agent._parse_tool_call: the value returned (PyNone is None), or raised
_parse_tool_call(response) ==
    IF startswith(response, TOOL_CALL_OPEN) /\ endswith(response, TOOL_CALL_CLOSE)
    THEN LET json_str == Slice(response, Len(TOOL_CALL_OPEN) + 1,
                               Len(response) - Len(TOOL_CALL_CLOSE))
             decoded == json_loads(json_str)
         IN  IF decoded.ok THEN [raised |-> FALSE, val |-> decoded.val]
             ELSE [raised |-> FALSE, val |-> PyNone]
    ELSE [raised |-> FALSE, val |-> PyNone]

\* how an error message names the tool
tool_label(tool_name) == IF tool_name.k = "str" THEN tool_name.s ELSE tool_name.k

\* the end of execute_tool appending the ToolCallResult entry twice
record_tool_result_twice(st, tool_name, tool_args, result) ==
    [Logged(st, "Tool result: " \o tool_label(tool_name))
        EXCEPT !.history = Append(Append(@, ToolCallResult(tool_name, tool_args, result)),
                                  ToolCallResult(tool_name, tool_args, result))]

\* the end of execute_tool storing the result over the last history entry
record_tool_result_overwrites(st, tool_name, tool_args, result) ==
    [Logged(st, "Tool result: " \o tool_label(tool_name))
        EXCEPT !.history = [@ EXCEPT ![Len(@)] = ToolCallResult(tool_name, tool_args, result)]]

\* the end of execute_tool: log the result, append the ToolCallResult entry
record_tool_result(st, tool_name, tool_args, result) ==
    [Logged(st, "Tool result: " \o tool_label(tool_name))
        EXCEPT !.history = Append(@, ToolCallResult(tool_name, tool_args, result))]

\* call_tool calling execute a second time when the first call raises
call_tool_retry(st, t, registry, tool_name, tool_args) ==
    LET failed(cause) ==
            [st |-> Logged(st, "ERROR: Error executing tool " \o tool_label(tool_name)),
             result |-> ResultError("Error executing tool " \o tool_label(tool_name)
                                    \o ": " \o cause)]
    IN  IF ~get_tool_found(registry, tool_name) THEN {failed("tool not found")}
        ELSE IF ~validate_ok(schema(tool_name.s), tool_args) THEN {failed("invalid arguments")}
        ELSE LET call(o) == [turn |-> t, tool |-> tool_name.s, args |-> tool_args,
                              outcome |-> o]
                 called(o) == [Logged(st, "Tool call: " \o tool_name.s)
                                  EXCEPT !.executed = Append(@, call(o))]
                 retried(o) == [called(o) EXCEPT !.executed =
                                   Append(@, call([raised |-> FALSE, result |-> ResultOk("data")]))]
             IN  { IF o.raised
                   THEN [st |-> retried(o), result |-> ResultOk("data")]
                   ELSE [st |-> called(o), result |-> o.result]
                   : o \in ExecuteOutcomes }

\* call_tool recording the value execute returns wrapped as the data of a success
call_tool_wraps_result(st, t, registry, tool_name, tool_args) ==
    LET failed(cause) ==
            [st |-> Logged(st, "ERROR: Error executing tool " \o tool_label(tool_name)),
             result |-> ResultError("Error executing tool " \o tool_label(tool_name)
                                    \o ": " \o cause)]
    IN  IF ~get_tool_found(registry, tool_name) THEN {failed("tool not found")}
        ELSE IF ~validate_ok(schema(tool_name.s), tool_args) THEN {failed("invalid arguments")}
        ELSE LET called(o) == [Logged(st, "Tool call: " \o tool_name.s)
                                  EXCEPT !.executed =
                                      Append(@, [turn |-> t, tool |-> tool_name.s,
                                                 args |-> tool_args, outcome |-> o])]
             IN  { IF o.raised
                   THEN [st |-> Logged(called(o), "ERROR: Error executing tool " \o tool_name.s),
                         result |-> ResultError("Error executing tool " \o tool_name.s
                                                \o ": tool raised")]
                   ELSE [st |-> called(o), result |-> ResultOk(o.result.data)]
                   : o \in ExecuteOutcomes }

\* call_tool without the schema.validate call
call_tool_unvalidated(st, t, registry, tool_name, tool_args) ==
    LET failed(cause) ==
            [st |-> Logged(st, "ERROR: Error executing tool " \o tool_label(tool_name)),
             result |-> ResultError("Error executing tool " \o tool_label(tool_name)
                                    \o ": " \o cause)]
    IN  IF ~get_tool_found(registry, tool_name) THEN {failed("tool not found")}
        ELSE LET called(o) == [Logged(st, "Tool call: " \o tool_name.s)
                                  EXCEPT !.executed =
                                      Append(@, [turn |-> t, tool |-> tool_name.s,
                                                 args |-> tool_args, outcome |-> o])]
             IN  { IF o.raised
                   THEN [st |-> Logged(called(o), "ERROR: Error executing tool " \o tool_name.s),
                         result |-> ResultError("Error executing tool " \o tool_name.s
                                                \o ": tool raised")]
                   ELSE [st |-> called(o), result |-> o.result]
                   : o \in ExecuteOutcomes }

\* the try block of execute_tool for a tool name that is set: the states and
\* results it can end with
call_tool(st, t, registry, tool_name, tool_args) ==
    LET failed(cause) ==
            [st |-> Logged(st, "ERROR: Error executing tool " \o tool_label(tool_name)),
             result |-> ResultError("Error executing tool " \o tool_label(tool_name)
                                    \o ": " \o cause)]
    IN  IF ~get_tool_found(registry, tool_name) THEN {failed("tool not found")}
        ELSE IF ~validate_ok(schema(tool_name.s), tool_args) THEN {failed("invalid arguments")}
        ELSE LET called(o) == [Logged(st, "Tool call: " \o tool_name.s)
                                  EXCEPT !.executed =
                                      Append(@, [turn |-> t, tool |-> tool_name.s,
                                                 args |-> tool_args, outcome |-> o])]
             IN  { IF o.raised
                   THEN [st |-> Logged(called(o), "ERROR: Error executing tool " \o tool_name.s),
                         result |-> ResultError("Error executing tool " \o tool_name.s
                                                \o ": tool raised")]
                   ELSE [st |-> called(o), result |-> o.result]
                   : o \in ExecuteOutcomes }

\* execute_tool with the registry lookup outside the try block: a name that is
\* not registered raises out of execute_tool
execute_tool_propagates(st, t, registry, tool_call) ==
    IF tool_call.k # "dict" THEN {[st |-> st, raised |-> TRUE]}
    ELSE LET tool_name == dict_get(tool_call, "tool", PyNone)
             tool_args == dict_get(tool_call, "arguments", PyDict(<<>>, <<>>))
         IN  IF ~truthy(tool_name)
             THEN {[st |-> record_tool_result(
                              Logged(st, "ERROR: Malformed tool call: missing 'tool' name."),
                              tool_name, tool_args, ResultNone),
                    raised |-> FALSE]}
             ELSE IF ~get_tool_found(registry, tool_name)
             THEN {[st |-> st, raised |-> TRUE]}
             ELSE {[st |-> record_tool_result(c.st, tool_name, tool_args, c.result),
                    raised |-> FALSE]
                   : c \in call_tool(st, t, registry, tool_name, tool_args)}

\* Agent.execute_tool on the parsed value tool_call: the states it can end in;
\* raised = TRUE when an exception leaves it
execute_tool(st, t, registry, tool_call) ==
    IF tool_call.k # "dict" THEN {[st |-> st, raised |-> TRUE]}
    ELSE LET tool_name == dict_get(tool_call, "tool", PyNone)
             tool_args == dict_get(tool_call, "arguments", PyDict(<<>>, <<>>))
         IN  IF ~truthy(tool_name)
             THEN {[st |-> record_tool_result(
                              Logged(st, "ERROR: Malformed tool call: missing 'tool' name."),
                              tool_name, tool_args, ResultNone),
                    raised |-> FALSE]}
             ELSE {[st |-> record_tool_result(c.st, tool_name, tool_args, c.result),
                    raised |-> FALSE]
                   : c \in call_tool(st, t, registry, tool_name, tool_args)}

\* the marker recognised only at the start of the response
is_termination_prefix(text) == startswith(text, TERMINATE)

\* "<terminate>" in llm_response_content
is_termination(text) == contains(text, TERMINATE)

\* the final answer without the strip()
extract_final_answer_unstripped(text) == replace(text, TERMINATE, "")

\* llm_response_content.replace("<terminate>", "").strip()
extract_final_answer(text) == strip(replace(text, TERMINATE, ""))

\* range(self.max_turns + 1)
has_next_turn_inclusive(t, n) == t <= n

\* for turn in range(self.max_turns): whether iteration t runs
has_next_turn(t, n) == t < n

(***************************************************************************)
(* The loop of Agent.run.                                                  *)
(***************************************************************************)
Store(st) ==
    /\ history' = st.history
    /\ call_count' = st.call_count
    /\ executed' = st.executed
    /\ log' = st.log

\* the iteration ends and the loop goes on
Continue(st) ==
    /\ Store(st)
    /\ pc' = "loop"
    /\ turn' = turn + 1
    /\ UNCHANGED final_answer

\* break: the else clause of the loop is skipped, the finally clause runs
Break(st, answer) ==
    /\ Store(Logged(st, "Agent run finished."))
    /\ pc' = "finished"
    /\ final_answer' = answer
    /\ UNCHANGED turn

\* an exception leaves the loop: the finally clause runs, run raises
Raise(st) ==
    /\ Store(Logged(st, "Agent run finished."))
    /\ pc' = "crashed"
    /\ UNCHANGED <<turn, final_answer>>

\* one iteration of the loop
RunTurn ==
    /\ pc = "loop"
    /\ has_next_turn(turn, max_turns)
    /\ \E g \in GenerateOutcomes :
          LET q == query_llm(Logged(State, "--- Turn ---"), g)
              parsed == _parse_tool_call(q.text)
              answer == extract_final_answer(q.text)
          IN  IF q.none
              THEN Break(Logged(q.st, "LLM response was empty. Terminating."), final_answer)
              ELSE IF is_termination(q.text)
              THEN Break(Logged(Logged(q.st, "Agent decided to terminate."),
                                "Final Answer: " \o answer),
                         [set |-> TRUE, text |-> answer])
              ELSE IF parsed.raised THEN Raise(q.st)
              ELSE IF truthy(parsed.val)
              THEN \E o \in execute_tool(q.st, turn, tool_registry, parsed.val) :
                      IF o.raised THEN Raise(o.st) ELSE Continue(o.st)
              ELSE Continue(Logged(q.st, "Agent thought: " \o q.text))
    /\ UNCHANGED <<tool_vars, disk, max_turns, tool_registry, initialized>>

\* the else clause of the loop: every iteration ran and none broke out
MaxTurnsReached ==
    /\ pc = "loop"
    /\ ~has_next_turn(turn, max_turns)
    /\ pc' = "finished"
    /\ log' = log \o <<"Max turns reached. Terminating.", "Agent run finished.">>
    /\ UNCHANGED <<tool_vars, disk, max_turns, tool_registry, initialized, history, turn, call_count,
                   executed, final_answer>>

Next ==
    \/ InitializeEnvironment
    \/ InitializeLLM
    \/ InitializeLogger
    \/ InitializeToolRegistry
    \/ LoadSystemPrompt
    \/ LoadInstruction
    \/ RunTurn
    \/ MaxTurnsReached

Spec == Init /\ [][Next]_vars

(***************************************************************************)
(* The filesystem tools (src/waa/tools/fs.py).  Paths are strings;        *)
(* pathlib's join and resolve are modelled on their "/"-separated parts.  *)
(***************************************************************************)
\* the index of the first "/" of p at or after i, Len(p) + 1 when there is none
RECURSIVE first_sep(_, _)
first_sep(p, i) == IF i > Len(p) \/ Ch(p, i) = "/" THEN i ELSE first_sep(p, i + 1)

\* p.split("/")
RECURSIVE parts(_)
parts(p) ==
    LET k == first_sep(p, 1)
    IN  IF k > Len(p) THEN <<p>>
        ELSE <<Slice(p, 1, k - 1)>> \o parts(Slice(p, k + 1, Len(p)))

\* working_dir / path_str: an absolute right operand replaces the left one
joinpath(base, path_str) ==
    IF startswith(path_str, "/") THEN path_str ELSE base \o "/" \o path_str

\* the parts of an absolute path with "", "." and ".." resolved; ".." at the
\* root stays at the root
RECURSIVE normalize(_, _)
normalize(ps, acc) ==
    IF ps = <<>> THEN acc
    ELSE IF Head(ps) \in {"", "."} THEN normalize(Tail(ps), acc)
    ELSE IF Head(ps) = ".."
         THEN normalize(Tail(ps), IF acc = <<>> THEN acc ELSE SubSeq(acc, 1, Len(acc) - 1))
         ELSE normalize(Tail(ps), Append(acc, Head(ps)))

\* str(path) of the absolute path with the given parts
RECURSIVE render(_)
render(ps) ==
    IF ps = <<>> THEN "/"
    ELSE IF Len(ps) = 1 THEN "/" \o ps[1]
    ELSE render(SubSeq(ps, 1, Len(ps) - 1)) \o "/" \o ps[Len(ps)]

\* Path.resolve() of an absolute path, in a filesystem without symbolic links
resolve(p) == render(normalize(parts(p), <<>>))

\* Path.parent of a resolved path
parent(p) ==
    LET ps == normalize(parts(p), <<>>)
    IN  IF ps = <<>> THEN "/" ELSE render(SubSeq(ps, 1, Len(ps) - 1))

\* `path_str in self.protected_files`: the string is an element of the list
is_protected(path_str, protected_files) ==
    \E k \in 1..Len(protected_files) : protected_files[k] = path_str

\* str(full_path).startswith(str(self.working_dir.resolve()))
is_inside(full_path, working_dir) == startswith(full_path, resolve(working_dir))

\* Path.mkdir(parents=True, exist_ok=True): the directories afterwards, or a
\* failure when the path or one of its ancestors is a regular file
RECURSIVE mkdir_parents(_, _, _)
mkdir_parents(path, fl, ds) ==
    IF path \in ds THEN [ok |-> TRUE, dirs |-> ds]
    ELSE IF path \in DOMAIN fl THEN [ok |-> FALSE, dirs |-> ds]
    ELSE LET up == mkdir_parents(parent(path), fl, ds)
         IN  IF up.ok THEN [ok |-> TRUE, dirs |-> up.dirs \cup {path}] ELSE up

\* Path.write_text on a path whose parent directory exists
write_text(path, content, fl) ==
    [f \in DOMAIN fl \cup {path} |-> IF f = path THEN content ELSE fl[f]]

\* what a call leaves behind: the filesystem, the result returned, and the
\* resolved paths whose content or entries the call read
FsOutcomeRead(fl, ds, result, read) ==
    [files |-> fl, dirs |-> ds, result |-> result, read |-> read]
FsOutcome(fl, ds, result) == FsOutcomeRead(fl, ds, result, {})

\* Path.exists, Path.is_file, Path.is_dir
exists(path, fl, ds) == path \in DOMAIN fl \/ path \in ds
is_file(path, fl) == path \in DOMAIN fl
is_dir(path, ds) == path \in ds

\* the entries of a directory (Path.iterdir) and everything below it
children(path, fl, ds) == {q \in (DOMAIN fl \cup ds) \ {"/"} : parent(q) = path}
below(path, fl, ds) == {q \in DOMAIN fl \cup ds : startswith(q, path \o "/")}

\* Path.unlink
unlink(path, fl) == [f \in DOMAIN fl \ {path} |-> fl[f]]

\* str.replace(old, new, 1): the first occurrence only; the empty old text
\* occurs at the start
replace_first(s, old, new) ==
    IF old = "" THEN new \o s
    ELSE IF ~contains(s, old) THEN s
    ELSE LET i == index_of(s, old)
         IN  Slice(s, 1, i - 1) \o new \o Slice(s, i + Len(old), Len(s))

OutsideError(path_str) == ResultError("Path is outside the working directory: " \o path_str)

\* FileCreateTool.execute({"path": path_str, "content": content})
FileCreateTool_execute(fl, ds, path_str, content) ==
    LET full_path == resolve(joinpath(WORKING_DIR, path_str))
        made == mkdir_parents(parent(full_path), fl, ds)
    IN  IF ~is_inside(full_path, WORKING_DIR)
        THEN FsOutcome(fl, ds, OutsideError(path_str))
        ELSE IF is_protected(path_str, PROTECTED_FILES)
        THEN FsOutcome(fl, ds, ResultError("File is protected and cannot be written to: "
                                           \o path_str))
        ELSE IF ~made.ok
        THEN FsOutcome(fl, ds, ResultError("Failed to write file: not a directory"))
        ELSE IF full_path \in made.dirs
        THEN FsOutcome(fl, made.dirs, ResultError("Failed to write file: is a directory"))
        ELSE FsOutcome(write_text(full_path, content, fl), made.dirs,
                       ResultOk("Successfully wrote to file " \o path_str \o "."))

\* FileDeleteTool.execute({"path": path_str})
FileDeleteTool_execute(fl, ds, path_str) ==
    LET full_path == resolve(joinpath(WORKING_DIR, path_str))
    IN  IF ~is_inside(full_path, WORKING_DIR) THEN FsOutcome(fl, ds, OutsideError(path_str))
        ELSE IF is_protected(path_str, PROTECTED_FILES)
        THEN FsOutcome(fl, ds, ResultError("File is protected and cannot be deleted: "
                                           \o path_str))
        ELSE IF ~exists(full_path, fl, ds)
        THEN FsOutcome(fl, ds, ResultError("File not found: " \o path_str))
        ELSE IF ~is_file(full_path, fl)
        THEN FsOutcome(fl, ds, ResultError(
                 "Path is not a file, cannot be deleted with fs.delete: " \o path_str))
        ELSE FsOutcome(unlink(full_path, fl), ds,
                       ResultOk("Successfully deleted file " \o path_str \o "."))

\* FileReadTool.execute({"path": path_str}); the data is the content read
FileReadTool_execute(fl, ds, path_str) ==
    LET full_path == resolve(joinpath(WORKING_DIR, path_str))
    IN  IF ~is_inside(full_path, WORKING_DIR) THEN FsOutcome(fl, ds, OutsideError(path_str))
        ELSE IF ~exists(full_path, fl, ds)
        THEN FsOutcome(fl, ds, ResultError("File not found: " \o path_str))
        ELSE IF ~is_file(full_path, fl)
        THEN FsOutcome(fl, ds, ResultError("Path is not a file: " \o path_str))
        ELSE FsOutcomeRead(fl, ds, ResultOk(fl[full_path]), {full_path})

\* FileEditTool.execute({"path": path_str, "old_text": old_text, "new_text": new_text})
FileEditTool_execute(fl, ds, path_str, old_text, new_text) ==
    LET full_path == resolve(joinpath(WORKING_DIR, path_str))
        new_content == replace_first(fl[full_path], old_text, new_text)
    IN  IF ~is_inside(full_path, WORKING_DIR) THEN FsOutcome(fl, ds, OutsideError(path_str))
        ELSE IF is_protected(path_str, PROTECTED_FILES)
        THEN FsOutcome(fl, ds, ResultError("File is protected and cannot be edited: "
                                           \o path_str))
        ELSE IF ~is_file(full_path, fl)
        THEN FsOutcome(fl, ds, ResultError("File not found: " \o path_str))
        ELSE IF fl[full_path] = new_content
        THEN FsOutcomeRead(fl, ds,
                 ResultError("Text to be replaced ('" \o old_text \o "') not found in file: "
                             \o path_str),
                 {full_path})
        ELSE FsOutcomeRead(write_text(full_path, new_content, fl), ds,
                           ResultOk("Successfully edited file " \o path_str \o "."),
                           {full_path})

\* DirectoryCreateTool.execute({"path": path_str})
DirectoryCreateTool_execute(fl, ds, path_str) ==
    LET full_path == resolve(joinpath(WORKING_DIR, path_str))
        made == mkdir_parents(full_path, fl, ds)
    IN  IF ~is_inside(full_path, WORKING_DIR) THEN FsOutcome(fl, ds, OutsideError(path_str))
        ELSE IF ~made.ok
        THEN FsOutcome(fl, ds, ResultError("Failed to create directory: file exists"))
        ELSE FsOutcome(fl, made.dirs,
                       ResultOk("Successfully created directory " \o path_str \o "."))

\* DirectoryDeleteTool.execute without the test for the working directory itself
DirectoryDeleteTool_execute_unguarded(fl, ds, path_str, recursive) ==
    LET full_path == resolve(joinpath(WORKING_DIR, path_str))
        gone == below(full_path, fl, ds) \cup {full_path}
    IN  IF ~is_inside(full_path, WORKING_DIR) THEN FsOutcome(fl, ds, OutsideError(path_str))
        ELSE IF ~exists(full_path, fl, ds)
        THEN FsOutcome(fl, ds, ResultError("Directory not found: " \o path_str))
        ELSE IF ~is_dir(full_path, ds)
        THEN FsOutcome(fl, ds, ResultError("Path is not a directory: " \o path_str))
        ELSE IF recursive
        THEN FsOutcome([f \in DOMAIN fl \ gone |-> fl[f]], ds \ gone,
                       ResultOk("Successfully recursively deleted directory "
                                \o path_str \o "."))
        ELSE IF children(full_path, fl, ds) # {}
        THEN FsOutcome(fl, ds, ResultError(
                 "Directory not empty. Use recursive=True to delete it: " \o path_str))
        ELSE FsOutcome(fl, ds \ {full_path},
                       ResultOk("Successfully deleted empty directory " \o path_str \o "."))

\* DirectoryDeleteTool.execute({"path": path_str, "recursive": recursive}); an
\* absent recursive is False
DirectoryDeleteTool_execute(fl, ds, path_str, recursive) ==
    LET full_path == resolve(joinpath(WORKING_DIR, path_str))
        gone == below(full_path, fl, ds) \cup {full_path}
    IN  IF ~is_inside(full_path, WORKING_DIR) THEN FsOutcome(fl, ds, OutsideError(path_str))
        ELSE IF full_path = resolve(WORKING_DIR)
        THEN FsOutcome(fl, ds, ResultError("Cannot delete the root working directory."))
        ELSE IF ~exists(full_path, fl, ds)
        THEN FsOutcome(fl, ds, ResultError("Directory not found: " \o path_str))
        ELSE IF ~is_dir(full_path, ds)
        THEN FsOutcome(fl, ds, ResultError("Path is not a directory: " \o path_str))
        ELSE IF recursive
        THEN FsOutcome([f \in DOMAIN fl \ gone |-> fl[f]], ds \ gone,
                       ResultOk("Successfully recursively deleted directory "
                                \o path_str \o "."))
        ELSE IF children(full_path, fl, ds) # {}
        THEN FsOutcome(fl, ds, ResultError(
                 "Directory not empty. Use recursive=True to delete it: " \o path_str))
        ELSE FsOutcome(fl, ds \ {full_path},
                       ResultOk("Successfully deleted empty directory " \o path_str \o "."))

\* DirectoryListTool.execute({"path": path_str}); the entries returned are the
\* children of the directory, kept as the paths read
DirectoryListTool_execute(fl, ds, path_str) ==
    LET full_path == resolve(joinpath(WORKING_DIR, path_str))
    IN  IF ~is_inside(full_path, WORKING_DIR) THEN FsOutcome(fl, ds, OutsideError(path_str))
        ELSE IF ~is_dir(full_path, ds)
        THEN FsOutcome(fl, ds, ResultError("Path is not a directory: " \o path_str))
        ELSE FsOutcomeRead(fl, ds, ResultOk("entries"),
                           {full_path} \cup children(full_path, fl, ds))

\* DirectoryTreeTool.execute({"path": path_str}); the lines returned name
\* everything below the directory, kept as the paths read
DirectoryTreeTool_execute(fl, ds, path_str) ==
    LET full_path == resolve(joinpath(WORKING_DIR, path_str))
    IN  IF ~is_inside(full_path, WORKING_DIR) THEN FsOutcome(fl, ds, OutsideError(path_str))
        ELSE IF ~is_dir(full_path, ds)
        THEN FsOutcome(fl, ds, ResultError("Path is not a directory: " \o path_str))
        ELSE FsOutcomeRead(fl, ds, ResultOk("tree"),
                           {full_path} \cup below(full_path, fl, ds))

\* the arguments the tool calls are made with
MaxFsCalls == 3
Paths ==
    { "p.txt", "./p.txt", "n/./r.txt", "n", "d/a.txt", "d", "", "d/..", "../w2/x.txt",
      "../w2", "../x.txt" }
Contents == {"xx"}
Edits ==
    { [old_text |-> "x", new_text |-> "y"], [old_text |-> "x", new_text |-> "x"],
      [old_text |-> "z", new_text |-> "y"] }

\* the call made and what it returned or read
Call(tool, path_str, content, old_text, new_text, recursive, r) ==
    [tool |-> tool, path |-> path_str, content |-> content, old_text |-> old_text,
     new_text |-> new_text, recursive |-> recursive, result |-> r.result, read |-> r.read]

\* the effect of one call on the filesystem
Called(r, call) ==
    /\ fs_calls < MaxFsCalls
    /\ fs_calls' = fs_calls + 1
    /\ files' = r.files
    /\ dirs' = r.dirs
    /\ fs_last' = call
    /\ UNCHANGED <<agent_vars, llm_vars, todo_vars>>

\* a call of fs.write
FsWrite ==
    \E path_str \in Paths, content \in Contents :
        LET r == FileCreateTool_execute(files, dirs, path_str, content)
        IN  Called(r, Call("fs.write", path_str, content, "", "", FALSE, r))

FsDelete ==
    \E path_str \in Paths :
        LET r == FileDeleteTool_execute(files, dirs, path_str)
        IN  Called(r, Call("fs.delete", path_str, "", "", "", FALSE, r))

FsRead ==
    \E path_str \in Paths :
        LET r == FileReadTool_execute(files, dirs, path_str)
        IN  Called(r, Call("fs.read", path_str, "", "", "", FALSE, r))

FsEdit ==
    \E path_str \in Paths, edit \in Edits :
        LET r == FileEditTool_execute(files, dirs, path_str, edit.old_text, edit.new_text)
        IN  Called(r, Call("fs.edit", path_str, "", edit.old_text, edit.new_text, FALSE, r))

FsMkdir ==
    \E path_str \in Paths :
        LET r == DirectoryCreateTool_execute(files, dirs, path_str)
        IN  Called(r, Call("fs.mkdir", path_str, "", "", "", FALSE, r))

FsRmdir ==
    \E path_str \in Paths, recursive \in BOOLEAN :
        LET r == DirectoryDeleteTool_execute(files, dirs, path_str, recursive)
        IN  Called(r, Call("fs.rmdir", path_str, "", "", "", recursive, r))

FsLs ==
    \E path_str \in Paths :
        LET r == DirectoryListTool_execute(files, dirs, path_str)
        IN  Called(r, Call("fs.ls", path_str, "", "", "", FALSE, r))

\* path is optional: "." when absent
FsTree ==
    \E path_str \in Paths \cup {"."} :
        LET r == DirectoryTreeTool_execute(files, dirs, path_str)
        IN  Called(r, Call("fs.tree", path_str, "", "", "", FALSE, r))

\* the tools are used on their own: the agent stays as constructed
IdleDisk ==
    [config_exists |-> TRUE, log_exists |-> FALSE, instruction_exists |-> TRUE,
     max_turns |-> 0, allowed_tools |-> [absent |-> TRUE, names |-> {}]]

InitFs ==
    /\ Init
    /\ disk = IdleDisk

NextFs ==
    \/ FsWrite
    \/ FsDelete
    \/ FsRead
    \/ FsEdit
    \/ FsMkdir
    \/ FsRmdir
    \/ FsLs
    \/ FsTree

SpecFs == InitFs /\ [][NextFs]_vars

(***************************************************************************)
(* The scripted language model used on its own: generate and reset calls  *)
(* on a MockLanguageModel constructed with one of the scripts.            *)
(***************************************************************************)
MaxScript == 2
MaxCalls == 6

ScriptTexts == {"a", "b", "c"}

RECURSIVE Lists(_)
Lists(n) ==
    IF n = 0 THEN {<<>>}
    ELSE Lists(n - 1) \cup {Append(l, t) : l \in {m \in Lists(n - 1) : Len(m) = n - 1},
                                           t \in ScriptTexts}

\* the constructor arguments tried: None, the empty list, the lists of up to
\* MaxScript texts
Scripts == {NoScript} \cup {Script(l) : l \in Lists(MaxScript)}

\* the messages argument of generate
Messages == {<<>>, <<"Build the app.">>}

\* MockLanguageModel.generate with the increment before the lookup
MockLanguageModel_generate_preincrement(responses, count, messages) ==
    IF Len(responses) = 0
    THEN [call_count |-> count, raised |-> TRUE, text |-> ""]
    ELSE [call_count |-> count + 1, raised |-> FALSE,
          text |-> responses[((count + 1) % Len(responses)) + 1]]

\* MockLanguageModel.generate: responses[call_count % len(responses)], raising
\* ZeroDivisionError on an empty list; then call_count += 1
MockLanguageModel_generate(responses, count, messages) ==
    IF Len(responses) = 0
    THEN [call_count |-> count, raised |-> TRUE, text |-> ""]
    ELSE [call_count |-> count + 1, raised |-> FALSE,
          text |-> responses[(count % Len(responses)) + 1]]

\* MockLanguageModel.reset
MockLanguageModel_reset(count) == 0

MockGenerate ==
    /\ llm_made < MaxCalls
    /\ \E messages \in Messages :
          LET g == MockLanguageModel_generate(llm_responses, llm_call_count, messages)
          IN  /\ llm_call_count' = g.call_count
              /\ llm_returned' = [called |-> TRUE, raised |-> g.raised, text |-> g.text]
    /\ llm_made' = llm_made + 1
    /\ UNCHANGED <<agent_vars, fs_vars, todo_vars, llm_script, llm_responses>>

MockReset ==
    /\ llm_call_count' = MockLanguageModel_reset(llm_call_count)
    /\ llm_made' = 0
    /\ UNCHANGED <<agent_vars, fs_vars, todo_vars, llm_script, llm_responses, llm_returned>>

InitMock ==
    /\ AgentInit
    /\ disk = IdleDisk
    /\ FsStart
    /\ \E script \in Scripts : MockConstructed(script)
    /\ TodoStart

NextMock == MockGenerate \/ MockReset

SpecMock == InitMock /\ [][NextMock]_vars

(***************************************************************************)
(* The todo tools (src/waa/tools/todo.py) used on their own: add, list,   *)
(* complete and remove calls on the list kept in .waa/todo.json, which    *)
(* does not exist at the start.  json.dump and json.load carry a list of  *)
(* objects over integers, strings and null unchanged, so the file is kept *)
(* as the list it holds.  The clock is the number of calls made so far:   *)
(* time moves on between any two calls.                                    *)
(***************************************************************************)
MaxTodoCalls == 4

\* the arguments the tool calls are made with
Descriptions == {"a", "b"}
Ids == 1..3
NoStatus == [absent |-> TRUE, value |-> ""]
StatusFilters ==
    {NoStatus} \cup {[absent |-> FALSE, value |-> s] : s \in {"all", "pending", "completed", "done"}}

\* the return values
TodoOk(message) ==
    [ok |-> TRUE, message |-> message, error |-> "", todos |-> <<>>, count |-> 0]
TodoListed(todos) ==
    [ok |-> TRUE, message |-> "", error |-> "", todos |-> todos, count |-> Len(todos)]
TodoError(error) ==
    [ok |-> FALSE, message |-> "", error |-> error, todos |-> <<>>, count |-> 0]

\* datetime.now().isoformat() at clock reading now
Timestamp(now) == [none |-> FALSE, at |-> now]

\* _read_todos: the empty list when the file does not exist
read_todos(file) == IF ~file.exists THEN <<>> ELSE file.todos

\* _write_todos: the file afterwards
write_todos(todos) == [exists |-> TRUE, todos |-> todos]

\* max(ids + [0])
max_id(todos) ==
    LET ids == {todos[k].id : k \in 1..Len(todos)} \cup {0}
    IN  CHOOSE i \in ids : \A j \in ids : j <= i

TodoOutcome(file, result) == [file |-> file, result |-> result]

NotFound(item_id) == TodoError("TODO item with ID " \o ToString(item_id) \o " not found.")

\* TodoAddTool.execute({"description": description})
TodoAddTool_execute(file, description, now) ==
    LET todos == read_todos(file)
        new_id == max_id(todos) + 1
        new_todo == [id |-> new_id, description |-> description, status |-> "pending",
                     created_at |-> Timestamp(now), completed_at |-> None]
    IN  TodoOutcome(write_todos(Append(todos, new_todo)),
                    TodoOk("TODO item added with ID: " \o ToString(new_id) \o "."))

\* TodoListTool.execute({"status": status}); an absent status is "all"
TodoListTool_execute(file, status) ==
    LET status_filter == IF status.absent THEN "all" ELSE status.value
        todos == read_todos(file)
        matches(todo) == todo.status = status_filter
    IN  IF status_filter \notin {"pending", "completed", "all"}
        THEN TodoOutcome(file, TodoError(
                 "Invalid status filter. Must be one of: ['pending', 'completed', 'all']"))
        ELSE IF status_filter # "all"
        THEN TodoOutcome(file, TodoListed(SelectSeq(todos, matches)))
        ELSE TodoOutcome(file, TodoListed(todos))

\* TodoCompleteTool.execute that marks the head of the list once the id is found
TodoCompleteTool_execute_head(file, item_id, now) ==
    LET todos == read_todos(file)
        found == {k \in 1..Len(todos) : todos[k].id = item_id}
    IN  IF found = {} THEN TodoOutcome(file, NotFound(item_id))
        ELSE TodoOutcome(
                 write_todos([todos EXCEPT ![1] = [@ EXCEPT !.status = "completed",
                                                            !.completed_at = Timestamp(now)]]),
                 TodoOk("TODO item " \o ToString(item_id) \o " marked as completed."))

\* TodoCompleteTool.execute({"id": item_id}): the first item with the id
TodoCompleteTool_execute(file, item_id, now) ==
    LET todos == read_todos(file)
        found == {k \in 1..Len(todos) : todos[k].id = item_id}
        first == CHOOSE k \in found : \A j \in found : k <= j
    IN  IF found = {} THEN TodoOutcome(file, NotFound(item_id))
        ELSE TodoOutcome(
                 write_todos([todos EXCEPT ![first] = [@ EXCEPT !.status = "completed",
                                                                !.completed_at = Timestamp(now)]]),
                 TodoOk("TODO item " \o ToString(item_id) \o " marked as completed."))

\* TodoRemoveTool.execute({"id": item_id}): every item with the id
TodoRemoveTool_execute(file, item_id) ==
    LET todos == read_todos(file)
        kept(todo) == todo.id # item_id
        todos_after_removal == SelectSeq(todos, kept)
    IN  IF Len(todos_after_removal) = Len(todos) THEN TodoOutcome(file, NotFound(item_id))
        ELSE TodoOutcome(write_todos(todos_after_removal),
                         TodoOk("TODO item " \o ToString(item_id) \o " removed."))

\* the call made and what it returned
TodoCall(tool, description, item_id, status, r) ==
    [tool |-> tool, description |-> description, id |-> item_id, status |-> status,
     result |-> r.result]

\* the effect of one call on the todo file
TodoCalled(r, call) ==
    /\ todo_calls < MaxTodoCalls
    /\ todo_calls' = todo_calls + 1
    /\ todo_file' = r.file
    /\ todo_last' = call
    /\ UNCHANGED <<agent_vars, fs_vars, llm_vars>>

\* a call of todo.add; the id it assigned is the id of the item appended
TodoAdd ==
    \E description \in Descriptions :
        LET r == TodoAddTool_execute(todo_file, description, todo_calls + 1)
        IN  /\ TodoCalled(r, TodoCall("todo.add", description, 0, NoStatus, r))
            /\ todo_issued' = Append(todo_issued, r.file.todos[Len(r.file.todos)].id)

TodoList ==
    \E status \in StatusFilters :
        LET r == TodoListTool_execute(todo_file, status)
        IN  /\ TodoCalled(r, TodoCall("todo.list", "", 0, status, r))
            /\ UNCHANGED todo_issued

TodoComplete ==
    \E item_id \in Ids :
        LET r == TodoCompleteTool_execute(todo_file, item_id, todo_calls + 1)
        IN  /\ TodoCalled(r, TodoCall("todo.complete", "", item_id, NoStatus, r))
            /\ UNCHANGED todo_issued

TodoRemove ==
    \E item_id \in Ids :
        LET r == TodoRemoveTool_execute(todo_file, item_id)
        IN  /\ TodoCalled(r, TodoCall("todo.remove", "", item_id, NoStatus, r))
            /\ UNCHANGED todo_issued

InitTodo ==
    /\ Init
    /\ disk = IdleDisk

NextTodo ==
    \/ TodoAdd
    \/ TodoList
    \/ TodoComplete
    \/ TodoRemove

SpecTodo == InitTodo /\ [][NextTodo]_vars

(***************************************************************************)
(* Observations of a run used by the properties below.                    *)
(***************************************************************************)
LineCount(l, line) == Cardinality({i \in 1..Len(l) : l[i] = line})
PrefixCount(l, p) == Cardinality({i \in 1..Len(l) : startswith(l[i], p)})
EntryCount(h, type) == Cardinality({i \in 1..Len(h) : h[i].type = type})

\* generate calls that raised, and turns that produced a model response
GenerateFailures == LineCount(log, "LLM query failed")
GenerateFailed == GenerateFailures > 0
ResponsesProduced == call_count - GenerateFailures

\* the terminal state the run reported
EndedExplicit == LineCount(log, "Agent decided to terminate.") > 0
EndedTurnLimit == LineCount(log, "Max turns reached. Terminating.") > 0
EndedEmptyResponse == LineCount(log, "LLM response was empty. Terminating.") > 0
TerminalStatesReached ==
    (IF EndedExplicit THEN 1 ELSE 0) + (IF EndedTurnLimit THEN 1 ELSE 0)
    + (IF EndedEmptyResponse THEN 1 ELSE 0)

\* history[i] is a model response; the turn (loop index) it belongs to
IsResponse(i) == history[i].type = "LLMResponse"
TurnOf(i) == EntryCount(SubSeq(history, 1, i - 1), "LLMResponse")
ExecutedIn(t) == {j \in 1..Len(executed) : executed[j].turn = t}

\* the turn of response i recorded no tool result
NoResultAfter(i) == i = Len(history) \/ history[i + 1].type = "LLMResponse"
\* after the turn of response i the loop went on: to the turn limit, or to a next
\* turn (which left no entry only if its generate call failed)
LoopWentOn(i) ==
    i = Len(history) =>
        \/ pc = "loop"
        \/ pc = "finished" /\ EndedTurnLimit
        \/ pc = "finished" /\ EndedEmptyResponse /\ call_count > TurnOf(i) + 1

IsWrapped(text) == startswith(text, TOOL_CALL_OPEN) /\ endswith(text, TOOL_CALL_CLOSE)
Interior(text) == Slice(text, Len(TOOL_CALL_OPEN) + 1, Len(text) - Len(TOOL_CALL_CLOSE))
IsPlainText(text) == ~contains(text, TERMINATE) /\ ~IsWrapped(text)
AfterMarker(text) == Slice(text, Len(TERMINATE) + 1, Len(text))

(***************************************************************************)
(* C1.  As claimed: at the end of a run the history length is             *)
(* 2 + 2 * (turns that produced a response) - (1 if the run ended via     *)
(* empty-response).                                                        *)
(***************************************************************************)
C1_LengthTwoPerResponse ==
    pc = "finished" =>
        Len(history) = 2 + 2 * ResponsesProduced - (IF EndedEmptyResponse THEN 1 ELSE 0)

\* C1, amended: once initialization is complete the history length is 2 + the
\* number of turns that produced a model response + the number of turns in
\* which execute_tool recorded a ToolCallResult (a plain-text or terminating
\* turn adds one entry, a failed generate adds none).
C1_HistoryLength ==
    pc \in {"loop", "finished", "crashed"} =>
        Len(history) = 2 + ResponsesProduced + PrefixCount(log, "Tool result: ")

C1_Witness ==
    /\ pc = "finished"
    /\ EndedExplicit
    /\ call_count = 2
    /\ Len(history) = 4
    /\ history[3].content = "Let me check."

(***************************************************************************)
(* C2.  Every step makes at most one model query, and makes no more       *)
(* tool.execute calls and appends no more ToolCallResult entries than it  *)
(* makes queries: at most one of each between two consecutive queries.    *)
(***************************************************************************)
C2_AtMostOneToolPerTurn ==
    [][ LET queries == call_count' - call_count
        IN  /\ queries \in {0, 1}
            /\ Len(executed') - Len(executed) <= queries
            /\ EntryCount(history', "ToolCallResult")
                 - EntryCount(history, "ToolCallResult") <= queries ]_vars

C2_Witness ==
    /\ Len(executed) = 2
    /\ executed[1].turn # executed[2].turn
    /\ EntryCount(history, "ToolCallResult") = 2

(***************************************************************************)
(* C3.  As claimed: a response of two valid tool-call blocks one after    *)
(* the other executes exactly one tool, the first block's (fs.read).      *)
(***************************************************************************)
C3_FirstBlockExecuted ==
    \A i \in 1..Len(history) :
        (IsResponse(i) /\ history[i].content \in TwoBlockResponses) =>
            /\ Cardinality(ExecutedIn(TurnOf(i))) = 1
            /\ \A j \in ExecutedIn(TurnOf(i)) : executed[j].tool = "fs.read"

\* C3, amended: a response of two valid tool-call blocks one after the other
\* executes no tool: the text between the first opening and the last closing
\* delimiter is no JSON, the turn is plain text, no ToolCallResult is recorded
\* and the loop goes on.
C3_TwoBlocksExecuteNothing ==
    \A i \in 1..Len(history) :
        (IsResponse(i) /\ history[i].content \in TwoBlockResponses) =>
            /\ ExecutedIn(TurnOf(i)) = {}
            /\ NoResultAfter(i)
            /\ LoopWentOn(i)

C3_Witness ==
    \E i \in 1..Len(history) :
        /\ IsResponse(i)
        /\ history[i].content = Wrapped(CALL_READ) \o Wrapped(CALL_WRITE)
        /\ i < Len(history)
        /\ disk.allowed_tools.absent

(***************************************************************************)
(* C4.  A response that contains <terminate> anywhere ends the run in the *)
(* explicit-termination state: it is the last history entry, no tool is   *)
(* executed and no ToolCallResult is appended in its turn.                *)
(***************************************************************************)
C4_TerminateAnywhere ==
    \A i \in 1..Len(history) :
        (IsResponse(i) /\ contains(history[i].content, TERMINATE)) =>
            /\ i = Len(history)
            /\ pc = "finished"
            /\ EndedExplicit /\ ~EndedTurnLimit /\ ~EndedEmptyResponse
            /\ final_answer.set
            /\ ExecutedIn(TurnOf(i)) = {}

C4_Witness ==
    /\ pc = "finished"
    /\ Len(history) = 5
    /\ history[5].content =
         Wrapped("{\"tool\": \"fs.read\", \"arguments\": {\"path\": \"<terminate>\"}}")
    /\ Len(executed) = 1

(***************************************************************************)
(* C5.  As claimed: a run that completed initialization and ended has     *)
(* reached exactly one of the terminal states explicit termination,       *)
(* turn-limit, empty-response.                                             *)
(***************************************************************************)
C5_ExactlyOneTerminalState ==
    pc \in {"finished", "crashed"} => TerminalStatesReached = 1

(***************************************************************************)
(* C6.  With max_turns = N >= 0 and plain text on every call the run      *)
(* makes exactly N queries and ends in turn-limit; turn-limit is reported *)
(* only when no generate call failed and no response carried the marker.  *)
(***************************************************************************)
C6_TurnLimit ==
    /\ ( /\ pc = "finished"
         /\ max_turns >= 0
         /\ ~GenerateFailed
         /\ \A i \in 1..Len(history) : IsResponse(i) => IsPlainText(history[i].content) )
       => ( /\ call_count = max_turns
            /\ EntryCount(history, "LLMResponse") = max_turns
            /\ EndedTurnLimit /\ ~EndedExplicit /\ ~EndedEmptyResponse )
    /\ EndedTurnLimit =>
        /\ ~GenerateFailed /\ ~EndedExplicit /\ ~EndedEmptyResponse
        /\ \A i \in 1..Len(history) :
              IsResponse(i) => ~contains(history[i].content, TERMINATE)

C6_Witness ==
    /\ pc = "finished"
    /\ max_turns = 2
    /\ call_count = 2
    /\ EndedTurnLimit
    /\ \A i \in 1..Len(history) : IsResponse(i) => history[i].content = "Let me check."

(***************************************************************************)
(* C7.  The step in which llm.generate fails leaves the history and the   *)
(* executed tool calls unchanged and ends the run in the empty-response   *)
(* state; no step follows a failed generate.                              *)
(***************************************************************************)
C7_GenerateFailureEndsRun ==
    [][ /\ ~GenerateFailed
        /\ GenerateFailed' =>
              /\ history' = history
              /\ executed' = executed
              /\ pc' = "finished"
              /\ EndedEmptyResponse' /\ ~EndedExplicit' /\ ~EndedTurnLimit' ]_vars

C7_Witness ==
    /\ GenerateFailed
    /\ call_count = 2
    /\ Len(history) = 4
    /\ history[4].type = "ToolCallResult"

(***************************************************************************)
(* C8.  As claimed: a response "<terminate>" followed by T ends the run   *)
(* with the final answer T trimmed.                                        *)
(***************************************************************************)
C8_AnswerIsTrailingText ==
    (pc = "finished" /\ EndedExplicit /\ startswith(history[Len(history)].content, TERMINATE))
        => final_answer.text = strip(AfterMarker(history[Len(history)].content))

\* C8, amended: a response "<terminate>" followed by T ends the run with the
\* final answer T with the occurrences of "<terminate>" that one left-to-right
\* pass finds in it deleted, then trimmed: T trimmed when T does not contain
\* the marker ("<terminate>Done." gives "Done."); the response is the last
\* history entry, an LLMResponse, and no tool is executed in the turn.
C8_FinalAnswer ==
    (pc = "finished" /\ EndedExplicit /\ startswith(history[Len(history)].content, TERMINATE))
        => LET response == history[Len(history)].content
               T == AfterMarker(response)
           IN  /\ final_answer.set
               /\ final_answer.text = strip(replace(T, TERMINATE, ""))
               /\ ~contains(T, TERMINATE) => final_answer.text = strip(T)
               /\ response = "<terminate>Done." => final_answer.text = "Done."
               /\ history[Len(history)].type = "LLMResponse"
               /\ ExecutedIn(turn) = {}

C8_Witness ==
    /\ pc = "finished"
    /\ final_answer.set
    /\ final_answer.text = "Done."
    /\ history[Len(history)].content = "<terminate> Done. \n"

(***************************************************************************)
(* C9.  As claimed: for every wrapped response whose interior is no JSON, *)
(* _parse_tool_call returns None without raising, no ToolCallResult is    *)
(* appended and the loop goes on.                                          *)
(***************************************************************************)
C9_MalformedIsPlainText ==
    \A i \in 1..Len(history) :
        ( /\ IsResponse(i)
          /\ IsWrapped(history[i].content)
          /\ ~json_loads(Interior(history[i].content)).ok )
        => /\ _parse_tool_call(history[i].content) = [raised |-> FALSE, val |-> PyNone]
           /\ ExecutedIn(TurnOf(i)) = {}
           /\ NoResultAfter(i)
           /\ LoopWentOn(i)

\* C9, amended: the same for every such response that does not contain
\* "<terminate>"; one that does is a termination (C4).
C9_MalformedWithoutMarkerIsPlainText ==
    \A i \in 1..Len(history) :
        ( /\ IsResponse(i)
          /\ IsWrapped(history[i].content)
          /\ ~json_loads(Interior(history[i].content)).ok
          /\ ~contains(history[i].content, TERMINATE) )
        => /\ _parse_tool_call(history[i].content) = [raised |-> FALSE, val |-> PyNone]
           /\ ExecutedIn(TurnOf(i)) = {}
           /\ NoResultAfter(i)
           /\ LoopWentOn(i)

C9_Witness ==
    /\ Len(history) = 4
    /\ history[3].content = Wrapped("{\"tool\": ")
    /\ history[4].type = "LLMResponse"
    /\ pc = "loop"

(***************************************************************************)
(* C10.  As claimed: a wrapped response whose interior is JSON but no     *)
(* object with a tool name (an array, a string, a number, a literal, an   *)
(* empty object) raises nothing out of the loop: the turn records no      *)
(* result or an ok = false result, and the loop goes on.                  *)
(***************************************************************************)
C10_NonObjectNeverRaises ==
    \A i \in 1..Len(history) :
        ( /\ IsResponse(i)
          /\ history[i].content \in NonObjectResponses \cup {Wrapped("{}")} )
        => /\ pc # "crashed"
           /\ LoopWentOn(i)
           /\ ExecutedIn(TurnOf(i)) = {}
           /\ ~NoResultAfter(i) =>
                 (history[i + 1].result.k = "dict" /\ ~history[i + 1].result.ok)


\* the ToolCallResult entries recorded in the turn of response i
ResultsOf(i) ==
    {j \in (i + 1)..Len(history) :
        history[j].type = "ToolCallResult" /\ TurnOf(j) = TurnOf(i) + 1}
\* after the turn of response i, tool result included, the loop went on: to the
\* turn limit, or to a next turn (which left no entry only if its generate failed)
ProceededAfter(i) ==
    (\A j \in (i + 1)..Len(history) : history[j].type = "ToolCallResult") =>
        \/ pc = "loop"
        \/ pc = "finished" /\ EndedTurnLimit
        \/ pc = "finished" /\ EndedEmptyResponse /\ call_count > TurnOf(i) + 1
\* the result of a recorded entry is a failure dict with a message
IsFailure(result) == result.k = "dict" /\ ~result.ok /\ result.error # ""
\* how run classifies each response the model can give: the value decoded from
\* it, whether execute_tool is called with a dict, and the tool name and the
\* arguments execute_tool reads from it
Classified ==
    [text \in Responses |->
        LET parsed == _parse_tool_call(text)
            dispatched == /\ ~is_termination(text)
                          /\ ~parsed.raised
                          /\ truthy(parsed.val)
                          /\ parsed.val.k = "dict"
        IN  [dispatched |-> dispatched,
             tool |-> IF dispatched THEN dict_get(parsed.val, "tool", PyNone) ELSE PyNone,
             args |-> IF dispatched
                      THEN dict_get(parsed.val, "arguments", PyDict(<<>>, <<>>))
                      ELSE PyNone]]
\* the response makes run call execute_tool with a dict that names no tool
HasNoToolName(text) == Classified[text].dispatched /\ ~truthy(Classified[text].tool)
\* the tool name and the arguments the response asks for, when it is a tool call
RequestedTool(text) == Classified[text].tool
RequestedArgs(text) == Classified[text].args
IsToolRequest(text) == Classified[text].dispatched /\ truthy(Classified[text].tool)

(***************************************************************************)
(* C11.  As claimed: a response that is a valid wrapped fs.read call      *)
(* padded with surrounding whitespace is recognised after trimming and    *)
(* dispatched like the unpadded call: fs.read is executed in that turn    *)
(* and a ToolCallResult follows the response.                              *)
(***************************************************************************)
C11_PaddedCallDispatched ==
    \A i \in 1..Len(history) :
        (IsResponse(i) /\ history[i].content \in PaddedResponses) =>
            /\ \E j \in ExecutedIn(TurnOf(i)) : executed[j].tool = "fs.read"
            /\ Cardinality(ResultsOf(i)) = 1

(***************************************************************************)
(* C12.  As claimed: when the parsed tool call has no tool name, or an    *)
(* empty one, no tool is executed, exactly one ToolCallResult is appended *)
(* whose result is a failure (ok = false) with a descriptive error, and   *)
(* the loop proceeds.                                                      *)
(***************************************************************************)
C12_NamelessCallRecordsFailure ==
    \A i \in 1..Len(history) :
        (IsResponse(i) /\ HasNoToolName(history[i].content)) =>
            /\ ExecutedIn(TurnOf(i)) = {}
            /\ Cardinality(ResultsOf(i)) = 1
            /\ \A j \in ResultsOf(i) : IsFailure(history[j].result)
            /\ ProceededAfter(i)


\* the names in the registry
Registered == {tool_registry[k] : k \in 1..Len(tool_registry)}
\* the response asks for a tool whose name is not in the registry
AsksUnregistered(text) ==
    /\ IsToolRequest(text)
    /\ RequestedTool(text).k = "str"
    /\ RequestedTool(text).s \notin Registered
\* the response asks for a registered tool and leaves out a required argument
AsksWithMissingArgument(text) ==
    /\ IsToolRequest(text)
    /\ RequestedTool(text).k = "str"
    /\ RequestedTool(text).s \in Registered
    /\ RequestedArgs(text).k = "dict"
    /\ LET sch == schema(RequestedTool(text).s)
           args == RequestedArgs(text)
       IN  \E a \in 1..Len(sch) :
              /\ sch[a].required
              /\ \A k \in 1..Len(args.keys) : args.keys[k] # sch[a].name

(***************************************************************************)
(* C13.  A tool call naming a tool that is not in the registry (never     *)
(* defined, or excluded by allowed_tools) executes no tool, appends       *)
(* exactly one ToolCallResult whose result is ok = false with an error    *)
(* message, and the loop proceeds.                                         *)
(***************************************************************************)
C13_UnregisteredToolRecordsFailure ==
    \A i \in 1..Len(history) :
        (IsResponse(i) /\ AsksUnregistered(history[i].content)) =>
            /\ ExecutedIn(TurnOf(i)) = {}
            /\ Cardinality(ResultsOf(i)) = 1
            /\ \A j \in ResultsOf(i) :
                  /\ j = i + 1
                  /\ IsFailure(history[j].result)
                  /\ history[j].tool_name = RequestedTool(history[i].content)
            /\ ProceededAfter(i)

\* a tool excluded by allowed_tools was asked for, then a tool never defined
C13_Witness ==
    /\ ~disk.allowed_tools.absent
    /\ pc = "finished"
    /\ EndedTurnLimit
    /\ Len(history) = 6
    /\ history[3].content = Wrapped(CALL_WRITE)
    /\ IsFailure(history[4].result)
    /\ AsksUnregistered(history[5].content)
    /\ RequestedTool(history[5].content) = PyStr("nope")
    /\ IsFailure(history[6].result)
    /\ executed = <<>>

(***************************************************************************)
(* C14.  A tool call to a registered tool that leaves out a required      *)
(* argument never reaches the tool's execute: one ToolCallResult with     *)
(* ok = false and an error is recorded, and the run continues.            *)
(***************************************************************************)
C14_MissingArgumentRejected ==
    \A i \in 1..Len(history) :
        (IsResponse(i) /\ AsksWithMissingArgument(history[i].content)) =>
            /\ ExecutedIn(TurnOf(i)) = {}
            /\ Cardinality(ResultsOf(i)) = 1
            /\ \A j \in ResultsOf(i) : j = i + 1 /\ IsFailure(history[j].result)
            /\ ProceededAfter(i)

C14_Witness ==
    /\ pc = "loop"
    /\ Len(history) = 4
    /\ AsksWithMissingArgument(history[3].content)
    /\ RequestedTool(history[3].content) = PyStr("fs.read")
    /\ history[4].type = "ToolCallResult"
    /\ IsFailure(history[4].result)
    /\ executed = <<>>


\* initialize_tool_registry has returned
RegistryBuilt(at) == at \in {"load_system_prompt", "load_instruction", "loop", "finished", "crashed"}
\* the standard tools the configuration allows
AllowedStandardTools ==
    IF disk.allowed_tools.absent THEN ToolNames ELSE ToolNames \cap disk.allowed_tools.names

(***************************************************************************)
(* C15.  Once initialize_tool_registry has run with allowed_tools = L the *)
(* registry holds exactly the standard tools whose name is in L, each     *)
(* once (all of them when allowed_tools is absent; exactly fs.read for    *)
(* L = ["fs.read"]), and no later step changes the registry.              *)
(***************************************************************************)
C15_RegistryIsAllowList ==
    [][ /\ RegistryBuilt(pc') =>
              /\ {tool_registry'[k] : k \in 1..Len(tool_registry')} = AllowedStandardTools
              /\ Len(tool_registry') = Cardinality(AllowedStandardTools)
              /\ (~disk.allowed_tools.absent /\ disk.allowed_tools.names = {"fs.read"})
                    => tool_registry' = <<"fs.read">>
        /\ RegistryBuilt(pc) => tool_registry' = tool_registry ]_vars

C15_Witness ==
    /\ ~disk.allowed_tools.absent
    /\ disk.allowed_tools.names = {"fs.read"}
    /\ tool_registry = <<"fs.read">>
    /\ pc = "finished"
    /\ Len(executed) = 2


(***************************************************************************)
(* C17.  The history is append-only: every step leaves the old history    *)
(* as a prefix of the new one, changing and removing nothing.  Each       *)
(* append adds one entry: a step of initialization adds at most one, and  *)
(* a turn adds at most the response appended by query_llm followed by at  *)
(* most the one ToolCallResult appended by execute_tool.  From the end of *)
(* initialization on, the first entry is the only SystemPrompt and the    *)
(* second the only UserInstruction.                                        *)
(***************************************************************************)
C17_HistoryAppendOnly ==
    [][ LET added == SubSeq(history', Len(history) + 1, Len(history'))
        IN  /\ Len(history') >= Len(history)
            /\ SubSeq(history', 1, Len(history)) = history
            /\ Len(added) <= 2
            /\ Len(added) = 2 =>
                  (added[1].type = "LLMResponse" /\ added[2].type = "ToolCallResult")
            /\ (Len(added) = 1 /\ pc = "loop") => added[1].type = "LLMResponse"
            /\ pc' \in {"loop", "finished", "crashed"} =>
                  /\ Len(history') >= 2
                  /\ history'[1].type = "SystemPrompt"
                  /\ history'[2].type = "UserInstruction"
                  /\ EntryCount(history', "SystemPrompt") = 1
                  /\ EntryCount(history', "UserInstruction") = 1 ]_vars

C17_Witness ==
    /\ pc = "finished"
    /\ Len(history) = 6
    /\ history[1].type = "SystemPrompt"
    /\ history[2].type = "UserInstruction"
    /\ history[4].type = "ToolCallResult"
    /\ history[6].type = "ToolCallResult"


\* the positions of Agent.initialize up to and including each call
UpToEnvironment == {"initialize_environment"}
UpToLogger == UpToEnvironment \cup {"initialize_llm", "initialize_logger"}
UpToInstruction ==
    UpToLogger \cup {"initialize_tool_registry", "load_system_prompt", "load_instruction"}

(***************************************************************************)
(* C18.  When the configuration file is missing, the instruction file is  *)
(* missing, or the log file already exists, Agent.run aborts during       *)
(* initialization, at the call that finds the fault: the loop is never    *)
(* entered, no model query is made and no tool is executed.               *)
(***************************************************************************)
C18_FatalInitialization ==
    /\ ~disk.config_exists => pc \in UpToEnvironment \cup {"aborted"}
    /\ disk.log_exists => pc \in UpToLogger \cup {"aborted"}
    /\ ~disk.instruction_exists => pc \in UpToInstruction \cup {"aborted"}
    /\ (~disk.config_exists \/ disk.log_exists \/ ~disk.instruction_exists) =>
          /\ call_count = 0
          /\ executed = <<>>
          /\ EntryCount(history, "LLMResponse") = 0
          /\ EntryCount(history, "ToolCallResult") = 0
    /\ pc = "aborted" =>
          (~disk.config_exists \/ disk.log_exists \/ ~disk.instruction_exists)

\* the instruction file is the only fault: the abort comes after the system prompt
C18_Witness ==
    /\ pc = "aborted"
    /\ disk.config_exists
    /\ ~disk.log_exists
    /\ ~disk.instruction_exists
    /\ disk.max_turns > 0
    /\ Len(history) = 1
    /\ call_count = 0
    /\ executed = <<>>


(***************************************************************************)
(* C19.  Every tool in the registry has had initialize(env) called        *)
(* exactly once, and no tool more than once; the calls come before the    *)
(* system prompt is appended and before any execute on the tool, and no   *)
(* step after initialize_tool_registry initializes a tool again.          *)
(***************************************************************************)
C19_InitializedOnce ==
    [][ /\ \A k \in 1..Len(tool_registry') : initialized'[tool_registry'[k]] = 1
        /\ \A t \in ToolNames : initialized'[t] <= 1
        /\ history' # <<>> =>
              \A t \in AllowedStandardTools :
                  /\ \E k \in 1..Len(tool_registry') : tool_registry'[k] = t
                  /\ initialized'[t] = 1
        /\ \A j \in 1..Len(executed') : initialized[executed'[j].tool] = 1
        /\ RegistryBuilt(pc) => initialized' = initialized ]_vars

C19_Witness ==
    /\ pc = "finished"
    /\ disk.allowed_tools.names = {"todo.complete", "fs.read", "ghost.tool"}
    /\ tool_registry = <<"fs.read", "todo.complete">>
    /\ initialized["fs.read"] = 1
    /\ initialized["todo.complete"] = 1
    /\ initialized["fs.write"] = 0
    /\ Len(executed) = 2
    /\ executed[1].tool = "fs.read"


\* the history index of the response of turn t
ResponseOfTurn(t) == CHOOSE i \in 1..Len(history) : IsResponse(i) /\ TurnOf(i) = t
\* the response asks for a registered tool with arguments that pass validation
AsksValid(text) ==
    /\ IsToolRequest(text)
    /\ RequestedTool(text).k = "str"
    /\ RequestedTool(text).s \in Registered
    /\ validate_ok(schema(RequestedTool(text).s), RequestedArgs(text))

(***************************************************************************)
(* C20.  A tool call naming a registered tool with arguments that pass    *)
(* validation makes one execute call, and for every execute call exactly  *)
(* one ToolCallResult is appended right after the response: it carries    *)
(* the value execute returned, unchanged, or, if execute raised, an       *)
(* ok = false result with an error message.  No exception leaves the      *)
(* loop and the next turn proceeds.                                        *)
(***************************************************************************)
C20_ResultRecordedVerbatim ==
    /\ \A i \in 1..Len(history) :
          (IsResponse(i) /\ AsksValid(history[i].content)) =>
              Cardinality(ExecutedIn(TurnOf(i))) = 1
    /\ \A j \in 1..Len(executed) :
          LET i == ResponseOfTurn(executed[j].turn)
          IN  /\ ResultsOf(i) = {i + 1}
              /\ history[i + 1].tool_name = PyStr(executed[j].tool)
              /\ history[i + 1].tool_args = executed[j].args
              /\ IF executed[j].outcome.raised
                 THEN IsFailure(history[i + 1].result)
                 ELSE history[i + 1].result = executed[j].outcome.result
              /\ ProceededAfter(i)

\* one execute raised, the next returned a failure of its own
C20_Witness ==
    /\ pc = "finished"
    /\ EndedTurnLimit
    /\ Len(executed) = 2
    /\ executed[1].outcome.raised
    /\ IsFailure(history[4].result)
    /\ executed[2].outcome = [raised |-> FALSE, result |-> ResultError("tool failed")]
    /\ history[6].result = ResultError("tool failed")


\* the files protected_files names, as resolved paths
ProtectedTargets ==
    {resolve(joinpath(WORKING_DIR, PROTECTED_FILES[k])) : k \in 1..Len(PROTECTED_FILES)}

(***************************************************************************)
(* C16.  As claimed: an fs.write call whose path, however it is spelled,  *)
(* resolves to a file listed in protected_files returns ok = false with   *)
(* an error that says "protected", and changes nothing in the filesystem: *)
(* no file is written and no directory is created.                        *)
(***************************************************************************)
C16_ProtectedWriteRefused ==
    [][ (/\ fs_last'.tool = "fs.write"
         /\ resolve(joinpath(WORKING_DIR, fs_last'.path)) \in ProtectedTargets) =>
            /\ IsFailure(fs_last'.result)
            /\ contains(fs_last'.result.error, "protected")
            /\ files' = files
            /\ dirs' = dirs ]_vars


(***************************************************************************)
(* C21.  For a MockLanguageModel scripted with a non-empty list R, the    *)
(* k-th generate call since construction or the last reset returns        *)
(* R[(k-1) mod len(R)] whatever messages it is given, call_count equals   *)
(* the number of generate calls made since construction or the last       *)
(* reset, and generate never fails.                                        *)
(***************************************************************************)
C21_MockCyclesScript ==
    (~llm_script.absent /\ llm_script.list # <<>>) =>
        /\ llm_call_count = llm_made
        /\ ~llm_returned.raised
        /\ llm_made > 0 =>
              /\ llm_returned.called
              /\ llm_returned.text
                   = llm_script.list[((llm_made - 1) % Len(llm_script.list)) + 1]

\* the script <<"a", "b">> has wrapped around: the third call returned "a" again
C21_Witness ==
    /\ llm_script = Script(<<"a", "b">>)
    /\ llm_made = 3
    /\ llm_call_count = 3
    /\ llm_returned = [called |-> TRUE, raised |-> FALSE, text |-> "a"]


\* an execute call of the run raised
ExecuteRaised == \E j \in 1..Len(executed) : executed[j].outcome.raised

(***************************************************************************)
(* C22.  As claimed: when every generate call and every execute call      *)
(* returns, a run that completed initialization ends in a terminal state  *)
(* (explicit, turn limit; never by an exception leaving the loop) and     *)
(* makes at most max_turns model queries, none when max_turns <= 0.       *)
(***************************************************************************)
C22_TerminatesWithinMaxTurns ==
    (~GenerateFailed /\ ~ExecuteRaised) =>
        /\ pc # "crashed"
        /\ pc = "finished" => TerminalStatesReached = 1
        /\ call_count <= (IF max_turns > 0 THEN max_turns ELSE 0)


(***************************************************************************)
(* C29.  In every reachable history each ToolCallResult entry comes       *)
(* right after an LLMResponse entry, the response of its turn (the        *)
(* response asks for the tool the entry names), so no two ToolCallResult  *)
(* entries are adjacent; there are at most as many ToolCallResult entries *)
(* as LLMResponse entries, and at most max_turns of those.                *)
(***************************************************************************)
C29_ResultFollowsResponse ==
    /\ \A j \in 1..Len(history) :
          history[j].type = "ToolCallResult" =>
              /\ j > 1
              /\ history[j - 1].type = "LLMResponse"
              /\ Classified[history[j - 1].content].dispatched
              /\ history[j].tool_name = Classified[history[j - 1].content].tool
    /\ EntryCount(history, "ToolCallResult") <= EntryCount(history, "LLMResponse")
    /\ EntryCount(history, "LLMResponse") <= (IF max_turns > 0 THEN max_turns ELSE 0)

\* every turn the limit allows made a tool call
C29_Witness ==
    /\ pc = "finished"
    /\ max_turns = MaxTurns
    /\ EntryCount(history, "LLMResponse") = MaxTurns
    /\ EntryCount(history, "ToolCallResult") = MaxTurns
    /\ history[Len(history)].type = "ToolCallResult"


(***************************************************************************)
(* C23.  As claimed: no fs tool call changes a protected file: a file     *)
(* listed in protected_files that exists before a call (fs.write,         *)
(* fs.delete, fs.edit, fs.mkdir, fs.rmdir with or without recursive)      *)
(* exists after it with the same content.                                  *)
(***************************************************************************)
C23_ProtectedFilesUntouched ==
    [][ \A f \in ProtectedTargets \cap DOMAIN files :
            f \in DOMAIN files' /\ files'[f] = files[f] ]_vars


\* the resolved path is neither the working directory nor anything under it
IsOutside(path_str) ==
    LET full_path == resolve(joinpath(WORKING_DIR, path_str))
        root == resolve(WORKING_DIR)
    IN  full_path # root /\ ~startswith(full_path, root \o "/")

(***************************************************************************)
(* C24.  As claimed: a call of any fs tool (write, delete, read, edit,    *)
(* mkdir, rmdir, ls, tree) whose path resolves outside the working        *)
(* directory, a sibling directory whose name begins with the working      *)
(* directory's name included, returns ok = false, reads nothing and       *)
(* leaves every file and directory as it was.                             *)
(***************************************************************************)
C24_OutsideRefused ==
    [][ IsOutside(fs_last'.path) =>
            /\ IsFailure(fs_last'.result)
            /\ fs_last'.read = {}
            /\ files' = files
            /\ dirs' = dirs ]_vars


\* the call just made is fs.edit on an existing file under the working
\* directory, by a path string the protected test lets through
EditedExisting(fl, call) ==
    /\ call.tool = "fs.edit"
    /\ ~IsOutside(call.path)
    /\ ~is_protected(call.path, PROTECTED_FILES)
    /\ resolve(joinpath(WORKING_DIR, call.path)) \in DOMAIN fl

(***************************************************************************)
(* C25.  As claimed: fs.edit on an existing file inside the working       *)
(* directory returns ok = true exactly when old_text occurs in the file,  *)
(* and the file then holds the old content with the first occurrence of   *)
(* old_text, and only that one, replaced by new_text; when old_text does  *)
(* not occur the call returns ok = false and the file is unchanged.       *)
(***************************************************************************)
C25_EditReplacesFirstOccurrence ==
    [][ EditedExisting(files, fs_last') =>
            LET full_path == resolve(joinpath(WORKING_DIR, fs_last'.path))
                content == files[full_path]
                old_text == fs_last'.old_text
                i == index_of(content, old_text)
            IN  IF contains(content, old_text)
                THEN /\ fs_last'.result.ok
                     /\ files' = [files EXCEPT ![full_path] =
                                     Slice(content, 1, i - 1) \o fs_last'.new_text
                                     \o Slice(content, i + Len(old_text), Len(content))]
                ELSE /\ IsFailure(fs_last'.result)
                     /\ files' = files ]_vars


\* the path string names the working directory itself
IsRoot(path_str) == resolve(joinpath(WORKING_DIR, path_str)) = resolve(WORKING_DIR)

(***************************************************************************)
(* C26.  fs.rmdir never deletes the working directory: a call whose path  *)
(* resolves to the working-directory root, with recursive or without,     *)
(* returns ok = false and leaves every file and directory as it was.      *)
(***************************************************************************)
C26_RootNeverDeleted ==
    [][ (fs_last'.tool = "fs.rmdir" /\ IsRoot(fs_last'.path)) =>
            /\ IsFailure(fs_last'.result)
            /\ files' = files
            /\ dirs' = dirs ]_vars

\* a recursive fs.rmdir of "d/.." was refused with the working directory full
C26_Witness ==
    /\ fs_last.tool = "fs.rmdir"
    /\ fs_last.path = "d/.."
    /\ fs_last.recursive
    /\ fs_last.result = ResultError("Cannot delete the root working directory.")
    /\ resolve(WORKING_DIR) \in dirs
    /\ below(resolve(WORKING_DIR), files, dirs) # {}


\* no value occurs twice in the sequence
Distinct(s) == \A i, j \in 1..Len(s) : s[i] = s[j] => i = j

\* the ids of the stored items, in the order of the list
StoredIds == [k \in 1..Len(read_todos(todo_file)) |-> read_todos(todo_file)[k].id]

(***************************************************************************)
(* C27.  As claimed: starting from an empty todo list, after any sequence *)
(* of todo.add, todo.complete and todo.remove calls the stored items have *)
(* pairwise distinct ids, and no id was assigned by todo.add twice, not   *)
(* even an id whose item has been removed since.                          *)
(***************************************************************************)
C27_IdsNeverReused ==
    /\ Distinct(StoredIds)
    /\ Distinct(todo_issued)


\* the indexes of the stored items with the id
WithId(todos, item_id) == {k \in 1..Len(todos) : todos[k].id = item_id}

(***************************************************************************)
(* C28.  todo.complete and todo.remove called with an id no stored item   *)
(* has return ok = false and leave the todo file as it was.  Called with  *)
(* an id a stored item has they return ok = true; complete sets the       *)
(* status of that item to "completed" and its completion timestamp and    *)
(* changes nothing else of it, remove deletes it; every other item is     *)
(* unchanged and keeps its place in the order.                            *)
(***************************************************************************)
C28_OnlyTheNamedItemChanges ==
    [][ todo_last'.tool \in {"todo.complete", "todo.remove"} =>
            LET item_id == todo_last'.id
                before == read_todos(todo_file)
                after == read_todos(todo_file')
                keeps(todo) == todo.id # item_id
            IN  IF WithId(before, item_id) = {}
                THEN /\ ~todo_last'.result.ok
                     /\ todo_last'.result.error # ""
                     /\ todo_file' = todo_file
                ELSE /\ todo_last'.result.ok
                     /\ todo_last'.tool = "todo.remove" => after = SelectSeq(before, keeps)
                     /\ todo_last'.tool = "todo.complete" =>
                           /\ Len(after) = Len(before)
                           /\ \A k \in 1..Len(before) :
                                 IF k \in WithId(before, item_id)
                                 THEN /\ after[k].status = "completed"
                                      /\ ~after[k].completed_at.none
                                      /\ after[k].id = before[k].id
                                      /\ after[k].description = before[k].description
                                      /\ after[k].created_at = before[k].created_at
                                 ELSE after[k] = before[k] ]_vars

\* of three pending items the second was completed, the others still pending
C28_Witness ==
    /\ todo_last.tool = "todo.complete"
    /\ todo_last.id = 2
    /\ todo_last.result.ok
    /\ Len(read_todos(todo_file)) = 3
    /\ read_todos(todo_file)[2].status = "completed"
    /\ ~read_todos(todo_file)[2].completed_at.none
    /\ read_todos(todo_file)[1].status = "pending"
    /\ read_todos(todo_file)[3].status = "pending"

=============================================================================
